---------------------------- MODULE Spec2Model ----------------------------
(***************************************************************************)
(* A model of the SEO keyword mind-map generator: the rule engine, the     *)
(* provider adapters, the fallback resolvers and the tree builder of       *)
(* keyword_generator.py, and the submit / test-connection handlers of      *)
(* app.py.                                                                 *)
(*                                                                         *)
(* Python strings are TLA+ strings read character by character (Len,       *)
(* SubSeq, \o).  Python values whose type the code inspects at run time    *)
(* (the parsed JSON of a provider response, an adapter's return value) are *)
(* tagged records [t |-> type, v |-> value].                               *)
(***************************************************************************)
EXTENDS Integers, Sequences, FiniteSets, TLC

(***************************************************************************)
(* Python str methods                                                      *)
(***************************************************************************)
LowerAlpha == "abcdefghijklmnopqrstuvwxyz"
UpperAlpha == "ABCDEFGHIJKLMNOPQRSTUVWXYZ"

CharAt(s, i) == SubSeq(s, i, i)

LowerChars == {CharAt(LowerAlpha, i) : i \in 1..26}
UpperChars == {CharAt(UpperAlpha, i) : i \in 1..26}

IsLower(c) == c \in LowerChars
IsUpper(c) == c \in UpperChars
IsCased(c) == IsLower(c) \/ IsUpper(c)

AlphaIndex(alpha, c) == CHOOSE i \in 1..26 : CharAt(alpha, i) = c

ToLower == [c \in UpperChars |-> CharAt(LowerAlpha, AlphaIndex(UpperAlpha, c))]
ToUpper == [c \in LowerChars |-> CharAt(UpperAlpha, AlphaIndex(LowerAlpha, c))]

LowerChar(c) == IF IsUpper(c) THEN ToLower[c] ELSE c
UpperChar(c) == IF IsLower(c) THEN ToUpper[c] ELSE c

\* str.lower()
RECURSIVE Lower(_)
Lower(s) == IF s = "" THEN "" ELSE LowerChar(Head(s)) \o Lower(Tail(s))

\* str.title(): a cased character is upper-cased when the character before it
\* is not cased, and lower-cased otherwise
RECURSIVE TitleFrom(_, _)
TitleFrom(s, prevCased) ==
    IF s = "" THEN ""
    ELSE LET c == Head(s)
         IN (IF prevCased THEN LowerChar(c) ELSE UpperChar(c))
                \o TitleFrom(Tail(s), IsCased(c))

Title(s) == TitleFrom(s, FALSE)

\* sub in s
Contains(sub, s) ==
    \E i \in 1..(Len(s) - Len(sub) + 1) : SubSeq(s, i, i + Len(sub) - 1) = sub

\* s.startswith(p)
StartsWith(s, p) == Len(p) <= Len(s) /\ SubSeq(s, 1, Len(p)) = p

\* str.replace(a, b) for a single character a
RECURSIVE Replace(_, _, _)
Replace(s, a, b) ==
    IF s = "" THEN ""
    ELSE (IF Head(s) = a THEN b ELSE Head(s)) \o Replace(Tail(s), a, b)

\* str.split(): the maximal runs of non-space characters
RECURSIVE SplitFrom(_, _)
SplitFrom(s, cur) ==
    IF s = "" THEN (IF cur = "" THEN <<>> ELSE <<cur>>)
    ELSE IF Head(s) = " "
         THEN (IF cur = "" THEN <<>> ELSE <<cur>>) \o SplitFrom(Tail(s), "")
         ELSE SplitFrom(Tail(s), cur \o Head(s))

Split(s) == SplitFrom(s, "")

\* sep.join(words)
RECURSIVE Join(_, _)
Join(words, sep) ==
    IF Len(words) = 0 THEN ""
    ELSE IF Len(words) = 1 THEN words[1]
    ELSE words[1] \o sep \o Join(Tail(words), sep)

\* str.split(sep) for a single character sep: the fields between the
\* separators, empty fields kept
SplitOn(s, sep) ==
    LET at == {i \in 1..Len(s) : CharAt(s, i) = sep}
        n == Cardinality(at)
        cut == [k \in 0..(n + 1) |->
                  IF k = 0 THEN 0
                  ELSE IF k = n + 1 THEN Len(s) + 1
                  ELSE CHOOSE i \in at : Cardinality({j \in at : j < i}) = k - 1]
    IN  [k \in 1..(n + 1) |-> SubSeq(s, cut[k - 1] + 1, cut[k] - 1)]

\* str.strip(chars): leading and trailing characters of the set are removed
RECURSIVE LStrip(_, _)
LStrip(s, chars) ==
    IF s # "" /\ Head(s) \in chars THEN LStrip(Tail(s), chars) ELSE s

RECURSIVE RStrip(_, _)
RStrip(s, chars) ==
    IF s # "" /\ CharAt(s, Len(s)) \in chars
    THEN RStrip(SubSeq(s, 1, Len(s) - 1), chars)
    ELSE s

Strip(s, chars) == RStrip(LStrip(s, chars), chars)

Whitespace == {" ", "\n", "\t"}
Quotes == {"\"", "'"}

\* seq[:n]
Take(seq, n) == SubSeq(seq, 1, IF n < Len(seq) THEN n ELSE Len(seq))


(***************************************************************************)
(* Python values whose run-time type the code depends on                   *)
(***************************************************************************)
PyNone == [t |-> "none", v |-> 0]
PyStr(s) == [t |-> "str", v |-> s]
PyNum(n) == [t |-> "num", v |-> n]
PyList(seq) == [t |-> "list", v |-> seq]
\* a dict in insertion order: a sequence of <<key, value>> pairs
PyDict(items) == [t |-> "dict", v |-> items]

\* bool(x)
Truthy(x) ==
    CASE x.t = "none" -> FALSE
      [] x.t = "num" -> x.v # 0
      [] OTHER -> Len(x.v) > 0

\* len(x) raises TypeError for None and for a number
HasLen(x) == x.t \in {"str", "list", "dict"}

\* x[:n] raises for None, a number and a dict
Sliceable(x) == x.t \in {"str", "list"}
Slice(x, n) == [t |-> x.t, v |-> Take(x.v, n)]

\* key in d, d[key]
HasKey(d, key) == \E i \in 1..Len(d.v) : d.v[i][1] = key
GetKey(d, key) == d.v[CHOOSE i \in 1..Len(d.v) : d.v[i][1] = key][2]

\* the elements a for loop visits: the items of a list, the characters of a str
Iterate(x) ==
    IF x.t = "str" THEN [i \in 1..Len(x.v) |-> CharAt(x.v, i)] ELSE x.v

(***************************************************************************)
(* The remote services.  net[p] says how provider p answers the requests   *)
(* of one run; the answer to a request depends on the request alone.       *)
(***************************************************************************)
Providers == {"search", "openai", "gemini"}

NetBehaviours ==
    {"ok", "altkey", "empty", "error", "denied", "badjson", "badshape",
     "badrecords", "flaky"}

\* a flaky service fails the requests for keywords of odd length; bad records
\* are an answer of the OpenAI service, which answers well except for the
\* competitors: a JSON array of urls instead of title and url objects
Behaviour(w, p, keyword) ==
    IF w.net[p] = "flaky"
    THEN (IF Len(keyword) % 2 = 1 THEN "error" ELSE "ok")
    ELSE w.net[p]

Digits ==
    <<"1", "2", "3", "4", "5", "6", "7", "8", "9", "10", "11", "12", "13", "14",
      "15">>

\* what the services answer when they answer well
OpenAIKeywordCount == 11
OpenAICompetitorCount == 4
GeminiKeywordCount == 3
SearchItemCount == 5

OpenAIKeywordList(keyword) ==
    [i \in 1..OpenAIKeywordCount |-> keyword \o " o" \o Digits[i]]

OpenAICompetitorList(keyword) ==
    [i \in 1..OpenAICompetitorCount |->
        [title |-> "Openai " \o Digits[i] \o " " \o keyword,
         url |-> "https://openai" \o Digits[i] \o ".test/"]]

\* the message content of a chat completion: PyNone, PyStr(text), or
\* [t |-> "json", v |-> value] for a text that is the JSON of value
Json(value) == [t |-> "json", v |-> value]
Raise == [t |-> "raise", v |-> 0]
Content(c) == [t |-> "content", v |-> c]

\* client.chat.completions.create(...)
OpenAIChat(w, cap, keyword, custom_prompt) ==
    LET b == Behaviour(w, "openai", keyword)
    IN  IF b \in {"error", "denied"} THEN Raise
        ELSE IF cap = "title" THEN
            Content(CASE b = "empty" -> PyStr(" \"\" ")
                      [] b \in {"badjson", "badshape"} -> PyNone
                      [] OTHER ->
                           PyStr(IF custom_prompt # ""
                                 THEN "\"Openai Custom " \o keyword \o "\"\n"
                                 ELSE "\"Openai Title " \o keyword \o "\"\n"))
        ELSE IF cap = "intent" THEN
            Content(CASE b = "empty" -> PyStr("Unclear")
                      [] b \in {"badjson", "badshape"} -> PyNone
                      [] OTHER -> PyStr(" Navigational\n"))
        ELSE IF cap = "keywords" THEN
            Content(CASE b = "empty" -> Json(PyDict(<<<<"keywords", PyList(<<>>)>>>>))
                      [] b = "badjson" -> PyStr("Here are your keywords")
                      [] b = "badshape" -> Json(PyDict(<<<<"keywords", PyNum(7)>>>>))
                      [] b = "altkey" ->
                           Json(PyDict(<<<<"topic", PyStr(keyword)>>,
                                         <<"related", PyList(OpenAIKeywordList(keyword))>>>>))
                      [] OTHER ->
                           Json(PyDict(<<<<"keywords", PyList(OpenAIKeywordList(keyword))>>>>)))
        ELSE
            Content(CASE b = "empty" -> Json(PyDict(<<<<"competitors", PyList(<<>>)>>>>))
                      [] b = "badjson" -> PyStr("Here are your competitors")
                      [] b = "badshape" -> Json(PyDict(<<<<"competitors", PyStr("none")>>>>))
                      [] b = "badrecords" ->
                           Json(PyList([i \in 1..OpenAICompetitorCount |->
                                           PyStr("https://openai" \o Digits[i] \o ".test/")]))
                      [] b = "altkey" ->
                           Json(PyDict(<<<<"count", PyNum(OpenAICompetitorCount)>>,
                                         <<"results", PyList(OpenAICompetitorList(keyword))>>>>))
                      [] OTHER ->
                           Json(PyDict(<<<<"competitors",
                                           PyList(OpenAICompetitorList(keyword))>>>>)))

\* json.loads(content): raises unless content is a JSON text
JsonLoads(content) ==
    IF content.t = "json" THEN [exc |-> FALSE, v |-> content.v]
    ELSE [exc |-> TRUE, v |-> PyNone]

\* content.strip().strip('"\''): raises AttributeError for None
StripTitle(content) == Strip(Strip(content.v, Whitespace), Quotes)

\* the first non-empty list among a dict's values, in insertion order
RECURSIVE FirstList(_, _)
FirstList(items, i) ==
    IF i > Len(items) THEN PyNone
    ELSE IF items[i][2].t = "list" /\ Len(items[i][2].v) > 0 THEN items[i][2]
    ELSE FirstList(items, i + 1)

\* the result of one adapter call: the value it returns and the number of
\* requests it sent
Adapter(provider, val, requests) ==
    [provider |-> provider, val |-> val, requests |-> requests]

\* the category named by a classifier's answer
IntentOf(text) ==
    LET result == Lower(text)
    IN  IF Contains("commercial", result) THEN PyStr("Commercial")
        ELSE IF Contains("navigational", result) THEN PyStr("Navigational")
        ELSE IF Contains("informational", result) THEN PyStr("Informational")
        ELSE PyNone

generate_title_with_openai(w, keyword, intent, custom_prompt) ==
    IF w.env["OPENAI_API_KEY"] = "" THEN Adapter("openai", PyStr(""), 0)
    ELSE IF ~w.OPENAI_AVAILABLE THEN Adapter("openai", PyStr(""), 0)
    ELSE LET r == OpenAIChat(w, "title", keyword, custom_prompt)
         IN  IF r.t = "raise" \/ r.v.t # "str" THEN Adapter("openai", PyStr(""), 1)
             ELSE Adapter("openai", PyStr(StripTitle(r.v)), 1)

determine_intent_with_openai(w, keyword) ==
    IF w.env["OPENAI_API_KEY"] = "" THEN Adapter("openai", PyNone, 0)
    ELSE IF ~w.OPENAI_AVAILABLE THEN Adapter("openai", PyNone, 0)
    ELSE LET r == OpenAIChat(w, "intent", keyword, "")
         IN  IF r.t = "raise" \/ r.v.t # "str" THEN Adapter("openai", PyNone, 1)
             ELSE Adapter("openai", IntentOf(Strip(r.v.v, Whitespace)), 1)

generate_related_keywords_with_openai(w, keyword, intent) ==
    IF w.env["OPENAI_API_KEY"] = "" THEN Adapter("openai", PyList(<<>>), 0)
    ELSE IF ~w.OPENAI_AVAILABLE THEN Adapter("openai", PyList(<<>>), 0)
    ELSE LET r == OpenAIChat(w, "keywords", keyword, "")
             j == JsonLoads(r.v)
             result == j.v
         IN  IF r.t = "raise" \/ j.exc THEN Adapter("openai", PyList(<<>>), 1)
             ELSE IF result.t = "dict" /\ HasKey(result, "keywords")
                  THEN Adapter("openai", GetKey(result, "keywords"), 1)
             ELSE IF result.t = "list" THEN Adapter("openai", result, 1)
             ELSE IF result.t # "dict" THEN Adapter("openai", PyList(<<>>), 1)
             ELSE LET found == FirstList(result.v, 1)
                  IN  Adapter("openai", IF found.t = "list" THEN found ELSE PyList(<<>>), 1)

generate_competitors_with_openai(w, keyword) ==
    IF w.env["OPENAI_API_KEY"] = "" THEN Adapter("openai", PyList(<<>>), 0)
    ELSE IF ~w.OPENAI_AVAILABLE THEN Adapter("openai", PyList(<<>>), 0)
    ELSE LET r == OpenAIChat(w, "competitors", keyword, "")
             j == JsonLoads(r.v)
             result == j.v
         IN  IF r.t = "raise" \/ j.exc THEN Adapter("openai", PyList(<<>>), 1)
             ELSE IF result.t = "list" THEN Adapter("openai", Slice(result, 3), 1)
             ELSE IF result.t = "dict" /\ HasKey(result, "competitors")
                  THEN LET c == GetKey(result, "competitors")
                       IN  Adapter("openai",
                                   IF Sliceable(c) THEN Slice(c, 3) ELSE PyList(<<>>), 1)
             ELSE IF result.t # "dict" THEN Adapter("openai", PyList(<<>>), 1)
             ELSE LET found == FirstList(result.v, 1)
                  IN  Adapter("openai",
                              IF found.t = "list" THEN Slice(found, 3) ELSE PyList(<<>>), 1)

\* initialize_gemini()
initialize_gemini(w) == w.env["GEMINI_API_KEY"] # "" /\ w.GEMINI_AVAILABLE

GeminiCompetitorCount == 4

Http(status, body) == [t |-> "http", status |-> status, body |-> body]

\* requests.post(<generateContent endpoint>): Raise, or a status and a body;
\* a JSON body is modelled by the value it parses to
GeminiPost(w, keyword, custom_prompt) ==
    LET b == Behaviour(w, "gemini", keyword)
        text == IF custom_prompt # ""
                THEN "'Gemini Custom " \o keyword \o "'"
                ELSE "'Gemini Title " \o keyword \o "'"
    IN  CASE b = "error" -> Raise
          [] b = "denied" -> Http(400, PyStr("API key not valid"))
          [] b = "quota" -> Http(429, PyStr("quota exceeded"))
          [] b = "badjson" -> Http(200, PyStr("<html>"))
          [] b = "badshape" -> Http(200, Json([error |-> "bad request"]))
          [] b = "altkey" ->
               Http(200, Json([candidates |->
                   <<[content |-> [parts |-> <<[inlineData |-> "x"]>>]]>>]))
          [] b = "empty" ->
               Http(200, Json([candidates |->
                   <<[content |-> [parts |-> <<[text |-> " "]>>]]>>]))
          [] OTHER ->
               Http(200, Json([candidates |->
                   <<[content |-> [parts |-> <<[text |-> text]>>]]>>]))

\* the text of the first part that has one, stripped; "" when there is none
RECURSIVE FirstPartText(_, _)
FirstPartText(parts, i) ==
    IF i > Len(parts) THEN ""
    ELSE IF "text" \in DOMAIN parts[i]
         THEN Strip(Strip(parts[i].text, Whitespace), Quotes)
         ELSE FirstPartText(parts, i + 1)

generate_title_with_gemini_endpoint(w, keyword, intent, custom_prompt) ==
    IF w.env["GEMINI_API_KEY"] = "" THEN Adapter("gemini", PyStr(""), 0)
    ELSE LET r == GeminiPost(w, keyword, custom_prompt)
         IN  IF r.t = "raise" THEN Adapter("gemini", PyStr(""), 1)
             ELSE IF r.status # 200 THEN Adapter("gemini", PyStr(""), 1)
             ELSE IF r.body.t # "json" THEN Adapter("gemini", PyStr(""), 1)
             ELSE LET response_json == r.body.v
                  IN  IF "candidates" \in DOMAIN response_json
                         /\ Len(response_json.candidates) > 0
                      THEN LET candidate == response_json.candidates[1]
                           IN  IF "content" \in DOMAIN candidate
                                  /\ "parts" \in DOMAIN candidate.content
                               THEN Adapter("gemini",
                                        PyStr(FirstPartText(candidate.content.parts, 1)), 1)
                               ELSE Adapter("gemini", PyStr(""), 1)
                      ELSE Adapter("gemini", PyStr(""), 1)

GeminiKeywordText(keyword) ==
    Join([i \in 1..GeminiKeywordCount |-> keyword \o " g" \o Digits[i]], ", ")

GeminiCompetitorText(keyword) ==
    Join([i \in 1..GeminiCompetitorCount |->
            "Title " \o Digits[i] \o ": Gemini " \o Digits[i] \o " " \o keyword
               \o "\n" \o "URL " \o Digits[i] \o ": https://gemini" \o Digits[i]
               \o ".test/"], "\n\n")

\* genai.GenerativeModel(...).generate_content(prompt): Raise, or response.text
GeminiGenerate(w, cap, keyword, custom_prompt) ==
    LET b == Behaviour(w, "gemini", keyword)
        malformed == b \in {"badjson", "badshape"}
    IN  IF b \in {"error", "denied"} THEN Raise
        ELSE IF b = "empty" THEN Content(PyStr(""))
        ELSE IF cap = "title" THEN
            Content(PyStr(IF malformed THEN " '' "
                          ELSE IF custom_prompt # ""
                               THEN "\"Gemini Custom " \o keyword \o "\""
                               ELSE "\"Gemini Title " \o keyword \o "\""))
        ELSE IF cap = "intent" THEN
            Content(PyStr(IF malformed THEN "It depends."
                          ELSE "The intent is Commercial."))
        ELSE IF cap = "keywords" THEN
            Content(PyStr(IF malformed THEN " , , " ELSE GeminiKeywordText(keyword)))
        ELSE
            Content(PyStr(IF malformed THEN "No competitors found."
                          ELSE GeminiCompetitorText(keyword)))

generate_title_with_gemini(w, keyword, intent, custom_prompt) ==
    LET first == generate_title_with_gemini_endpoint(w, keyword, intent, custom_prompt)
    IN  IF first.val.v # "" THEN first
        ELSE IF ~initialize_gemini(w) THEN Adapter("gemini", PyStr(""), first.requests)
        ELSE LET r == GeminiGenerate(w, "title", keyword, custom_prompt)
                 n == first.requests + 1
             IN  IF r.t = "raise" \/ r.v.v = "" THEN Adapter("gemini", PyStr(""), n)
                 ELSE Adapter("gemini",
                              PyStr(Strip(Strip(r.v.v, Whitespace), Quotes)), n)

determine_intent_with_gemini(w, keyword) ==
    IF ~initialize_gemini(w) THEN Adapter("gemini", PyNone, 0)
    ELSE LET r == GeminiGenerate(w, "intent", keyword, "")
         IN  IF r.t = "raise" \/ r.v.v = "" THEN Adapter("gemini", PyNone, 1)
             ELSE Adapter("gemini", IntentOf(Strip(r.v.v, Whitespace)), 1)

\* [k.strip() for k in fields if k.strip()]
RECURSIVE StripNonEmpty(_)
StripNonEmpty(fields) ==
    IF Len(fields) = 0 THEN <<>>
    ELSE LET k == Strip(Head(fields), Whitespace)
         IN  (IF k = "" THEN <<>> ELSE <<k>>) \o StripNonEmpty(Tail(fields))

generate_related_keywords_with_gemini(w, keyword, intent) ==
    IF ~initialize_gemini(w) THEN Adapter("gemini", PyList(<<>>), 0)
    ELSE LET r == GeminiGenerate(w, "keywords", keyword, "")
         IN  IF r.t = "raise" \/ r.v.v = "" THEN Adapter("gemini", PyList(<<>>), 1)
             ELSE Adapter("gemini",
                          PyList(Take(StripNonEmpty(SplitOn(r.v.v, ",")), 10)), 1)

\* line.split(":", 1)[1].strip() for a line that holds a ":"
RECURSIVE AfterColon(_)
AfterColon(line) ==
    IF Head(line) = ":" THEN Strip(Tail(line), Whitespace) ELSE AfterColon(Tail(line))

\* the loop over the lines of the answer: a competitor is appended at each URL
\* line that follows a title
RECURSIVE ParseCompetitors(_, _, _)
ParseCompetitors(lines, title, competitors) ==
    IF Len(lines) = 0 THEN competitors
    ELSE LET line == Strip(Head(lines), Whitespace)
         IN  IF StartsWith(line, "Title") /\ Contains(":", line)
             THEN ParseCompetitors(Tail(lines), AfterColon(line), competitors)
             ELSE IF StartsWith(line, "URL") /\ Contains(":", line)
             THEN LET url == AfterColon(line)
                  IN  IF title # "" /\ url # ""
                      THEN ParseCompetitors(Tail(lines), "",
                               Append(competitors, [title |-> title, url |-> url]))
                      ELSE ParseCompetitors(Tail(lines), title, competitors)
             ELSE ParseCompetitors(Tail(lines), title, competitors)

generate_competitors_with_gemini(w, keyword) ==
    IF ~initialize_gemini(w) THEN Adapter("gemini", PyList(<<>>), 0)
    ELSE LET r == GeminiGenerate(w, "competitors", keyword, "")
         IN  IF r.t = "raise" \/ r.v.v = "" THEN Adapter("gemini", PyList(<<>>), 1)
             ELSE Adapter("gemini",
                          PyList(Take(ParseCompetitors(SplitOn(r.v.v, "\n"), "", <<>>), 3)),
                          1)

\* requests.get(<custom search url>): Raise, or a status and a body
SearchGet(w, keyword) ==
    LET b == Behaviour(w, "search", keyword)
    IN  CASE b = "error" -> Raise
          [] b = "denied" -> Http(403, PyStr("forbidden"))
          [] b = "badjson" -> Http(200, PyStr("<html>"))
          [] b = "empty" -> Http(200, Json([kind |-> "customsearch#search"]))
          [] b = "badshape" ->
               Http(200, Json([items |-> <<[snippet |-> "about " \o keyword]>>]))
          [] OTHER ->
               Http(200, Json([items |->
                   [i \in 1..SearchItemCount |->
                       [title |-> "Search " \o Digits[i] \o " " \o keyword,
                        link |-> "https://search" \o Digits[i] \o ".test/"]]]))

\* item.get(key, "")
Get(item, key) == IF key \in DOMAIN item THEN item[key] ELSE ""

\* generate_competitors_with_google_search without the check of the credentials
SearchWithoutCredentialCheck(w, keyword) ==
    IF SearchGet(w, keyword).t = "raise" THEN Adapter("search", PyList(<<>>), 1)
    ELSE Adapter("search", PyList(<<>>), 1)

generate_competitors_with_google_search(w, keyword) ==
    IF w.env["GOOGLE_SEARCH_API_KEY"] = "" \/ w.env["GOOGLE_SEARCH_CX"] = ""
    THEN Adapter("search", PyList(<<>>), 0)
    ELSE LET r == SearchGet(w, keyword)
         IN  IF r.t = "raise" THEN Adapter("search", PyList(<<>>), 1)
             ELSE IF r.status # 200 THEN Adapter("search", PyList(<<>>), 1)
             ELSE IF r.body.t # "json" THEN Adapter("search", PyList(<<>>), 1)
             ELSE LET data == r.body.v
                  IN  IF "items" \in DOMAIN data
                      THEN Adapter("search",
                               PyList([i \in 1..Len(Take(data.items, 3)) |->
                                   [title |-> Get(data.items[i], "title"),
                                    url |-> Get(data.items[i], "link")]]), 1)
                      ELSE Adapter("search", PyList(<<>>), 1)

(***************************************************************************)
(* The rule engine's tables                                                *)
(***************************************************************************)
INTENTS == <<"Commercial", "Informational", "Navigational">>

INFORMATIONAL_MODIFIERS ==
    <<"what is", "how to", "guide", "tutorial", "tips for", "best practices",
      "examples of", "understanding", "learn", "beginner's guide to", "advanced",
      "complete guide", "definition", "explained", "overview", "benefits of",
      "history of", "types of", "comparison", "vs", "difference between">>

COMMERCIAL_MODIFIERS ==
    <<"best", "top", "buy", "cheap", "affordable", "premium", "review", "price",
      "cost of", "for sale", "deal", "discount", "professional", "services",
      "near me", "online", "shop", "purchase", "hire", "agency", "software",
      "tools", "platform">>

NAVIGATIONAL_MODIFIERS ==
    <<"login", "sign up", "download", "app", "website", "official",
      "customer service", "contact", "support", "dashboard", "account",
      "register", "free trial", "demo", "forum">>

DOMAINS ==
    <<"example.com", "seosite.com", "digitalmarketer.com", "wordstream.com",
      "semrush.com", "ahrefs.com", "moz.com", "searchenginejournal.com",
      "backlinko.com", "neilpatel.com", "hubspot.com", "seoroundtable.com",
      "searchengineland.com", "contentmarketinginstitute.com",
      "bloggingwizard.com">>

commercial_indicators ==
    <<"buy", "price", "cost", "shop", "purchase", "review", "best", "top", "vs",
      "comparison">>

navigational_indicators ==
    <<"login", "sign up", "download", "app", "website", "contact", "support">>

CombinationWords == <<"best", "top", "online", "professional", "free">>

VariationSuffixes == <<"examples", "tools", "services", "tips", "strategies">>

(***************************************************************************)
(* The random module.  One run draws its random numbers from the seed of   *)
(* the run and the place of the draw.                                      *)
(***************************************************************************)
\* a number in 0 .. n-1
Random(w, salt, n) == (w.seed * 37 + salt * 11) % n

\* random.choice(seq)
Choice(w, salt, seq) == seq[Random(w, salt, Len(seq)) + 1]

\* random.randint(a, b)
RandInt(w, salt, a, b) == a + Random(w, salt, b - a + 1)

\* random.sample(seq, k): k elements at distinct positions
Sample(w, salt, seq, k) ==
    LET start == Random(w, salt, Len(seq))
        step == 1 + Random(w, salt + 1, 2)
    IN  [i \in 1..k |-> seq[((start + (i - 1) * step) % Len(seq)) + 1]]

(***************************************************************************)
(* The fallback resolvers.  Each returns whether it raised, the value it   *)
(* returned and the capability calls it made, in order; a capability call  *)
(* records the adapters it tried and where the value came from.            *)
(***************************************************************************)
Call(cap, keyword, tried, source, val) ==
    [cap |-> cap, keyword |-> keyword, tried |-> tried, source |-> source,
     val |-> val]

Returned(val, log) == [exc |-> FALSE, val |-> val, log |-> log]
Raised(log) == [exc |-> TRUE, val |-> PyNone, log |-> log]

\* OPENAI_AVAILABLE and os.environ.get("OPENAI_API_KEY")
UseOpenAI(w) == w.OPENAI_AVAILABLE /\ w.env["OPENAI_API_KEY"] # ""
\* GEMINI_AVAILABLE and os.environ.get("GEMINI_API_KEY")
UseGemini(w) == w.GEMINI_AVAILABLE /\ w.env["GEMINI_API_KEY"] # ""

If(cond, seq) == IF cond THEN seq ELSE <<>>

AnyIn(indicators, text) ==
    \E i \in 1..Len(indicators) : Contains(indicators[i], text)

\* RuleIntent with the navigational indicators checked first
RuleIntentNavigationalFirst(keyword) ==
    LET keyword_lower == Lower(keyword)
    IN  IF AnyIn(navigational_indicators, keyword_lower) THEN "Navigational"
        ELSE IF AnyIn(commercial_indicators, keyword_lower) THEN "Commercial"
        ELSE "Informational"

\* the rule-based part of determine_intent
RuleIntent(keyword) ==
    LET keyword_lower == Lower(keyword)
    IN  IF AnyIn(commercial_indicators, keyword_lower) THEN "Commercial"
        ELSE IF AnyIn(navigational_indicators, keyword_lower) THEN "Navigational"
        ELSE "Informational"

determine_intent(w, keyword) ==
    LET o == determine_intent_with_openai(w, keyword)
        g == determine_intent_with_gemini(w, keyword)
    IN  IF UseOpenAI(w) /\ Truthy(o.val)
        THEN Returned(o.val, <<Call("intent", keyword, <<o>>, "openai", o.val)>>)
        ELSE IF UseGemini(w) /\ Truthy(g.val)
        THEN Returned(g.val,
                 <<Call("intent", keyword, If(UseOpenAI(w), <<o>>) \o <<g>>,
                        "gemini", g.val)>>)
        ELSE LET val == PyStr(RuleIntent(keyword))
             IN  Returned(val,
                     <<Call("intent", keyword,
                            If(UseOpenAI(w), <<o>>) \o If(UseGemini(w), <<g>>),
                            "rule", val)>>)

\* the place of a random draw: the statement and the keyword at hand
Salt(site, keyword) == site * 5 + Len(keyword)

\* datetime.now().year
CurrentYear == "2026"

\* any(term in custom_prompt.lower() for term in terms)
AnyTerm(terms, custom_prompt) == AnyIn(terms, Lower(custom_prompt))

NumberTerms == <<"number", "numbered", "use number", "add number">>
FormalTerms == <<"formal", "professional", "formal tone">>

\* the template families of generate_title: a template is the text before
\* and the text after the title-cased keyword
CustomTemplates(intent, use_numbers, formal_tone) ==
    IF intent = "Informational" THEN
        IF use_numbers THEN
            <<<<"10 Essential ", " Tips You Should Know">>,
              <<"7 Important Facts About ", " for Beginners">>,
              <<"5 Step-by-Step Methods to Master ", "">>,
              <<"8 Key Concepts of ", " Explained">>>>
        ELSE IF formal_tone THEN
            <<<<"A Comprehensive Analysis of ", " Methodologies">>,
              <<"The Definitive Guide to ", ": Professional Insights">>,
              <<"", ": A Thorough Examination of Principles and Applications">>,
              <<"Understanding the Fundamentals of ", ": An In-depth Overview">>>>
        ELSE
            <<<<"The Ultimate Guide to ", ": Everything You Need to Know">>,
              <<"How to ", ": A Complete Step-by-Step Guide">>,
              <<"", " 101: Essential Tips and Techniques">>,
              <<"Understanding ", ": A Comprehensive Overview">>>>
    ELSE IF intent = "Commercial" THEN
        IF use_numbers THEN
            <<<<"Top 10 ", " Products to Buy in " \o CurrentYear>>,
              <<"5 Best ", " Options for Every Budget">>,
              <<"7 ", " Products Professional Reviewers Recommend">>,
              <<"8 Premium ", " Solutions Worth Your Investment">>>>
        ELSE IF formal_tone THEN
            <<<<"A Comparative Analysis of Premium ", " Products">>,
              <<"Professional Review: Selected ", " Solutions for Discerning Buyers">>,
              <<"Investment Considerations: Superior ", " Options Available">>,
              <<"An Objective Assessment of Leading ", " Products">>>>
        ELSE
            <<<<"The Best ", " Reviews: Ultimate Buyer's Guide">>,
              <<"", ": Top Options Compared">>,
              <<"Best ", " Products: Reviews and Comparisons">>,
              <<"How to Choose the Right ", " for Your Needs">>>>
    ELSE
        IF use_numbers THEN
            <<<<"5 Essential ", " Resources You Need to Bookmark">>,
              <<"10 Official ", " Platforms to Access Information">>,
              <<"7 Best Ways to Navigate ", " Successfully">>,
              <<"3 Direct Pathways to Access ", " Resources">>>>
        ELSE IF formal_tone THEN
            <<<<"Professional Guide to Accessing ", " Resources">>,
              <<"An Index of Authoritative ", " Platforms">>,
              <<"Navigational Framework for ", " Information Access">>,
              <<"A Structured Approach to Finding ", " Resources">>>>
        ELSE
            <<<<"Official ", " Resources: Where to Find What You Need">>,
              <<"How to Access ", ": A Quick Reference Guide">>,
              <<"Navigate ", " Like a Pro: Essential Links">>,
              <<"", " Directory: Top Sites and Resources">>>>

StandardTemplates(intent, year) ==
    IF intent = "Informational" THEN
        <<<<"The Complete Guide to ", ": Everything You Need to Know">>,
          <<"How to Master ", ": Step-by-Step Tutorial">>,
          <<"", " Explained: A Comprehensive Guide for Beginners">>,
          <<"10 Essential ", " Tips You Should Know">>,
          <<"Understanding ", ": A Detailed Overview">>>>
    ELSE IF intent = "Commercial" THEN
        <<<<"Top 10 Best ", " Solutions in " \o year>>,
          <<"The Ultimate Buyer's Guide to ", "">>,
          <<"Best ", " Products: Reviews and Comparisons">>,
          <<"", ": Pricing, Features, and Alternatives Compared">>,
          <<"How to Choose the Right ", " for Your Needs">>>>
    ELSE
        <<<<"Official ", " Resources: Where to Find What You Need">>,
          <<"How to Access ", ": A Quick Reference Guide">>,
          <<"Navigate ", " Like a Pro: Essential Links and Resources">>,
          <<"Finding the Best ", " Platforms and Tools">>,
          <<"", " Directory: Top Sites and Resources">>>>

\* Templates with the formal terms looked for before the number terms
TemplatesFormalFirst(w, keyword, intent, custom_prompt) ==
    IF custom_prompt # ""
    THEN CustomTemplates(intent,
                         AnyTerm(NumberTerms, custom_prompt)
                             /\ ~AnyTerm(FormalTerms, custom_prompt),
                         AnyTerm(FormalTerms, custom_prompt))
    ELSE StandardTemplates(intent,
             IF RandInt(w, Salt(2, keyword), 2023, 2024) = 2023 THEN "2023" ELSE "2024")

\* the template family generate_title chooses from when no provider gave a title
Templates(w, keyword, intent, custom_prompt) ==
    IF custom_prompt # ""
    THEN CustomTemplates(intent, AnyTerm(NumberTerms, custom_prompt),
                         AnyTerm(FormalTerms, custom_prompt))
    ELSE StandardTemplates(intent,
             IF RandInt(w, Salt(2, keyword), 2023, 2024) = 2023 THEN "2023" ELSE "2024")

\* the rule-based part of generate_title
RuleTitle(w, keyword, intent, custom_prompt) ==
    LET template == Choice(w, Salt(1, keyword), Templates(w, keyword, intent, custom_prompt))
    IN  template[1] \o Title(keyword) \o template[2]

generate_title(w, keyword, intent, custom_prompt) ==
    LET o == generate_title_with_openai(w, keyword, intent, custom_prompt)
        g == generate_title_with_gemini(w, keyword, intent, custom_prompt)
    IN  IF UseOpenAI(w) /\ Truthy(o.val)
        THEN Returned(o.val, <<Call("title", keyword, <<o>>, "openai", o.val)>>)
        ELSE IF UseGemini(w) /\ Truthy(g.val)
        THEN Returned(g.val,
                 <<Call("title", keyword, If(UseOpenAI(w), <<o>>) \o <<g>>,
                        "gemini", g.val)>>)
        ELSE LET val == PyStr(RuleTitle(w, keyword, intent, custom_prompt))
             IN  Returned(val,
                     <<Call("title", keyword,
                            If(UseOpenAI(w), <<o>>) \o If(UseGemini(w), <<g>>),
                            "rule", val)>>)

\* the bounds of random.randint in recommend_word_count
WordCountRange(intent) ==
    IF intent = "Informational" THEN <<1500, 2500>>
    ELSE IF intent = "Commercial" THEN <<1200, 2000>>
    ELSE <<800, 1500>>

\* recommend_word_count with the range of Informational for every intent
WordCountOfInformational(w, keyword, intent) ==
    RandInt(w, Salt(3, keyword), 1500, 2500)

recommend_word_count(w, keyword, intent) ==
    RandInt(w, Salt(3, keyword), WordCountRange(intent)[1], WordCountRange(intent)[2])

\* the six title templates of a mock competitor on a domain
CompetitorTitle(w, keyword, domain, i) ==
    LET site == Title(SplitOn(domain, ".")[1])
        count == Digits[RandInt(w, Salt(6 + i, keyword), 5, 15)]
        title == Title(keyword)
        title_templates ==
            <<title \o " - Complete Guide and Resources",
              "Everything You Need to Know About " \o title,
              "The Ultimate Guide to " \o title \o " | " \o site,
              count \o " Best " \o title \o " Strategies",
              title \o ": Definition, Examples, and Best Practices",
              title \o " 101: Beginner's Guide to Success">>
    IN  Choice(w, Salt(9 + i, keyword), title_templates)

\* RuleCompetitors with one domain drawn for the three records
RuleCompetitorsOneDomain(w, keyword) ==
    LET domain == Choice(w, Salt(4, keyword), DOMAINS)
        slug == Replace(Lower(keyword), " ", "-")
    IN  [i \in 1..3 |->
            [title |-> CompetitorTitle(w, keyword, domain, i),
             url |-> "https://www." \o domain \o "/" \o slug \o "/"]]

\* the rule-based part of generate_competitors
RuleCompetitors(w, keyword) ==
    LET domains == Sample(w, Salt(4, keyword), DOMAINS, 3)
        slug == Replace(Lower(keyword), " ", "-")
    IN  [i \in 1..3 |->
            [title |-> CompetitorTitle(w, keyword, domains[i], i),
             url |-> "https://www." \o domains[i] \o "/" \o slug \o "/"]]

generate_competitors(w, keyword) ==
    LET s == generate_competitors_with_google_search(w, keyword)
        o == generate_competitors_with_openai(w, keyword)
        g == generate_competitors_with_gemini(w, keyword)
        useSearch == w.GOOGLE_SEARCH_AVAILABLE
        afterSearch == If(useSearch, <<s>>)
        afterOpenAI == afterSearch \o If(UseOpenAI(w), <<o>>)
        afterGemini == afterOpenAI \o If(UseGemini(w), <<g>>)
    IN  IF useSearch /\ Truthy(s.val)
        THEN Returned(s.val, <<Call("competitors", keyword, afterSearch, "search", s.val)>>)
        ELSE IF UseOpenAI(w) /\ Truthy(o.val)
        THEN Returned(o.val, <<Call("competitors", keyword, afterOpenAI, "openai", o.val)>>)
        ELSE IF UseGemini(w) /\ Truthy(g.val)
        THEN Returned(g.val, <<Call("competitors", keyword, afterGemini, "gemini", g.val)>>)
        ELSE LET val == PyList(RuleCompetitors(w, keyword))
             IN  Returned(val, <<Call("competitors", keyword, afterGemini, "rule", val)>>)

\* list(set(seq)): the distinct elements, in an order the run decides
RECURSIVE Dedupe(_, _)
Dedupe(seq, seen) ==
    IF Len(seq) = 0 THEN <<>>
    ELSE IF Head(seq) \in seen THEN Dedupe(Tail(seq), seen)
    ELSE <<Head(seq)>> \o Dedupe(Tail(seq), seen \cup {Head(seq)})

SetOrder(w, salt, seq) ==
    LET d == Dedupe(seq, {})
        r == Random(w, salt, Len(d))
    IN  SubSeq(d, r + 1, Len(d)) \o SubSeq(d, 1, r)

\* the modifier list of an intent
Modifiers(intent) ==
    IF intent = "Informational" THEN INFORMATIONAL_MODIFIERS
    ELSE IF intent = "Commercial" THEN COMMERCIAL_MODIFIERS
    ELSE NAVIGATIONAL_MODIFIERS

\* RuleKeywordCandidates with the combination word put in place of a word of
\* the keyword, not before it
RuleKeywordCandidatesReplacing(w, keyword, intent) ==
    LET modifiers == Modifiers(intent)
        sampled == Sample(w, Salt(10, keyword), modifiers,
                          IF 5 < Len(modifiers) THEN 5 ELSE Len(modifiers))
        variations == [i \in 1..Len(sampled) |-> sampled[i] \o " " \o keyword]
        words == Split(keyword)
        combinations ==
            IF Len(words) > 1
            THEN [i \in 1..Len(words) |->
                    Join([j \in 1..Len(words) |->
                            IF j = i
                            THEN Choice(w, Salt(11 + i, keyword), CombinationWords)
                            ELSE words[j]], " ")]
            ELSE <<>>
        specific == [i \in 1..Len(VariationSuffixes) |->
                        keyword \o " " \o VariationSuffixes[i]]
    IN  variations \o combinations \o specific

\* the rule-based part of generate_related_keywords, before and after list(set())
RuleKeywordCandidates(w, keyword, intent) ==
    LET modifiers == Modifiers(intent)
        sampled == Sample(w, Salt(10, keyword), modifiers,
                          IF 5 < Len(modifiers) THEN 5 ELSE Len(modifiers))
        variations == [i \in 1..Len(sampled) |-> sampled[i] \o " " \o keyword]
        words == Split(keyword)
        combinations ==
            IF Len(words) > 1
            THEN [i \in 1..Len(words) |->
                    Join([j \in 1..Len(words) |->
                            IF j = i
                            THEN Choice(w, Salt(11 + i, keyword), CombinationWords)
                                     \o " " \o words[j]
                            ELSE words[j]], " ")]
            ELSE <<>>
        specific == [i \in 1..Len(VariationSuffixes) |->
                        keyword \o " " \o VariationSuffixes[i]]
    IN  variations \o combinations \o specific

RuleKeywords(w, keyword, intent) ==
    Take(SetOrder(w, Salt(20, keyword), RuleKeywordCandidates(w, keyword, intent)), 10)

\* the provider chain of generate_related_keywords, given the calls made to
\* settle the intent and what the two adapters return
RelatedFrom(w, keyword, first, o, g, the_intent) ==
    LET afterOpenAI == If(UseOpenAI(w), <<o>>)
        afterGemini == afterOpenAI \o If(UseGemini(w), <<g>>)
    IN  IF UseOpenAI(w) /\ Truthy(o.val)
        THEN IF HasLen(o.val) /\ Sliceable(o.val)
             THEN Returned(Slice(o.val, 10),
                      first \o <<Call("keywords", keyword, afterOpenAI, "openai",
                                      Slice(o.val, 10))>>)
             ELSE Raised(first \o <<Call("keywords", keyword, afterOpenAI, "raise", PyNone)>>)
        ELSE IF UseGemini(w) /\ Truthy(g.val)
        THEN Returned(Slice(g.val, 10),
                 first \o <<Call("keywords", keyword, afterGemini, "gemini",
                                 Slice(g.val, 10))>>)
        ELSE Returned(PyList(RuleKeywords(w, keyword, the_intent)),
                 first \o <<Call("keywords", keyword, afterGemini, "rule",
                                 PyList(RuleKeywords(w, keyword, the_intent)))>>)

RelatedWith(w, keyword, i) ==
    RelatedFrom(w, keyword, i.log,
                generate_related_keywords_with_openai(w, keyword, i.val.v),
                generate_related_keywords_with_gemini(w, keyword, i.val.v),
                i.val.v)

\* intent = "" stands for the omitted argument
generate_related_keywords(w, keyword, intent) ==
    RelatedWith(w, keyword,
                IF intent = "" THEN determine_intent(w, keyword)
                ELSE Returned(PyStr(intent), <<>>))

(***************************************************************************)
(* The tree builder                                                        *)
(***************************************************************************)
Node(keyword, intent, title, word_count, competitors) ==
    [keyword |-> keyword, intent |-> intent, title |-> title,
     word_count |-> word_count, competitors |-> competitors, children |-> <<>>]

\* the node dict, given what the three resolvers returned
NodeFrom(keyword, i, t, c, word_count) ==
    Returned(Node(keyword, i.val.v, t.val.v, word_count, c.val),
             i.log \o t.log \o c.log)

\* NodeWith with a word count that grows with the custom instruction
NodeWithPromptedWordCount(w, keyword, i, custom_prompt) ==
    NodeFrom(keyword, i, generate_title(w, keyword, i.val.v, custom_prompt),
             generate_competitors(w, keyword),
             recommend_word_count(w, keyword, i.val.v) + Len(custom_prompt))

NodeWith(w, keyword, i, custom_prompt) ==
    NodeFrom(keyword, i, generate_title(w, keyword, i.val.v, custom_prompt),
             generate_competitors(w, keyword),
             recommend_word_count(w, keyword, i.val.v))

\* generate_keyword_node with the root classified like every other node
KeywordNodeClassified(w, keyword, is_root, custom_prompt) ==
    NodeWith(w, keyword, determine_intent(w, keyword), custom_prompt)

generate_keyword_node(w, keyword, is_root, custom_prompt) ==
    NodeWith(w, keyword,
             IF is_root
             THEN Returned(PyStr(Choice(w, Salt(30, keyword), INTENTS)), <<>>)
             ELSE determine_intent(w, keyword),
             custom_prompt)

\* what a loop of the builder has produced: whether it raised, the nodes
\* appended, the capability calls made, and for each call of
\* generate_related_keywords the path of the node it expanded with the value
\* it returned
Built(exc, nodes, log, expanded) ==
    [exc |-> exc, nodes |-> nodes, log |-> log, expanded |-> expanded]

Expansion(path, r) == [path |-> path, exc |-> r.exc, returned |-> r.val]

\* one iteration that appends a childless node n; rest is the iterations after it
Leaf(n, rest) ==
    Built(rest.exc, <<n.val>> \o rest.nodes, n.log \o rest.log, rest.expanded)

\* one iteration that appends node n and expands it: r is what
\* generate_related_keywords returned for it, below the loop over the children
Attach(n, r, path, below, rest) ==
    IF below.exc
    THEN Built(TRUE, <<>>, n.log \o r.log \o below.log,
               <<Expansion(path, r)>> \o below.expanded)
    ELSE Built(rest.exc,
               <<[n.val EXCEPT !.children = below.nodes]>> \o rest.nodes,
               n.log \o r.log \o below.log \o rest.log,
               <<Expansion(path, r)>> \o below.expanded \o rest.expanded)

\* the loop over third_level_keywords, from the i-th on
RECURSIVE ThirdLevel(_, _, _, _)
ThirdLevel(w, keywords, i, custom_prompt) ==
    IF i > Len(keywords) THEN Built(FALSE, <<>>, <<>>, <<>>)
    ELSE Leaf(generate_keyword_node(w, keywords[i], FALSE, custom_prompt),
              ThirdLevel(w, keywords, i + 1, custom_prompt))

\* SecondStep without the third level
SecondStepFlat(w, n, r, path, depth, custom_prompt, rest) == Leaf(n, rest)

SecondStep(w, n, r, path, depth, custom_prompt, rest) ==
    IF depth < 3 THEN Leaf(n, rest)
    ELSE IF r.exc THEN Built(TRUE, <<>>, n.log \o r.log, <<Expansion(path, r)>>)
    ELSE Attach(n, r, path,
                ThirdLevel(w, Iterate(Slice(r.val, 2)), 1, custom_prompt), rest)

\* the loop over second_level_keywords, from the i-th on, under the node at path
RECURSIVE SecondLevel(_, _, _, _, _, _)
SecondLevel(w, keywords, i, path, depth, custom_prompt) ==
    IF i > Len(keywords) THEN Built(FALSE, <<>>, <<>>, <<>>)
    ELSE SecondStep(w, generate_keyword_node(w, keywords[i], FALSE, custom_prompt),
                    generate_related_keywords(w, keywords[i], ""),
                    path \o <<i>>, depth, custom_prompt,
                    SecondLevel(w, keywords, i + 1, path, depth, custom_prompt))

\* FirstStep with the limit off by one: the first four keywords
FirstStepTakesFour(w, n, r, path, depth, custom_prompt, rest) ==
    IF depth < 2 THEN Leaf(n, rest)
    ELSE IF r.exc THEN Built(TRUE, <<>>, n.log \o r.log, <<Expansion(path, r)>>)
    ELSE Attach(n, r, path,
                SecondLevel(w, Iterate(Slice(r.val, 4)), 1, path, depth, custom_prompt),
                rest)

FirstStep(w, n, r, path, depth, custom_prompt, rest) ==
    IF depth < 2 THEN Leaf(n, rest)
    ELSE IF r.exc THEN Built(TRUE, <<>>, n.log \o r.log, <<Expansion(path, r)>>)
    ELSE Attach(n, r, path,
                SecondLevel(w, Iterate(Slice(r.val, 3)), 1, path, depth, custom_prompt),
                rest)

\* the loop over first_level_keywords, from the i-th on
RECURSIVE FirstLevel(_, _, _, _, _)
FirstLevel(w, keywords, i, depth, custom_prompt) ==
    IF i > Len(keywords) THEN Built(FALSE, <<>>, <<>>, <<>>)
    ELSE FirstStep(w, generate_keyword_node(w, keywords[i], FALSE, custom_prompt),
                   generate_related_keywords(w, keywords[i], ""),
                   <<i>>, depth, custom_prompt,
                   FirstLevel(w, keywords, i + 1, depth, custom_prompt))

RootStep(w, root, r, depth, custom_prompt) ==
    IF r.exc
    THEN Built(TRUE, <<root.val>>, root.log \o r.log, <<Expansion(<<>>, r)>>)
    ELSE Attach(root, r, <<>>,
                FirstLevel(w, Iterate(r.val), 1, depth, custom_prompt),
                Built(FALSE, <<>>, <<>>, <<>>))

\* whether it raised, the tree returned, the capability calls made and the
\* expansions
Structure(built) ==
    [exc |-> built.exc,
     val |-> IF built.exc THEN PyNone ELSE built.nodes[1],
     log |-> built.log, expanded |-> built.expanded]

\* generate_keyword_structure with the root's stored intent passed on to
\* generate_related_keywords
StructureFromRootIntent(w, main_keyword, depth, custom_prompt) ==
    LET root == generate_keyword_node(w, main_keyword, TRUE, custom_prompt)
    IN  Structure(RootStep(w, root,
                           generate_related_keywords(w, main_keyword, root.val.intent),
                           depth, custom_prompt))

generate_keyword_structure(w, main_keyword, depth, custom_prompt) ==
    Structure(RootStep(w, generate_keyword_node(w, main_keyword, TRUE, custom_prompt),
                       generate_related_keywords(w, main_keyword, ""),
                       depth, custom_prompt))

(***************************************************************************)
(* test_openai_connection and test_gemini_connection                       *)
(***************************************************************************)
\* str(e) of the exception a failing request raises
ErrorText(b) ==
    IF b = "denied" THEN "Error code: 401 - Incorrect API key provided"
    ELSE IF b = "quota" THEN "Error code: 429 - You exceeded your current quota"
    ELSE IF b = "liberror" THEN "404 models/gemini-2.0-flash is not found"
    ELSE "Connection error."

\* the OpenAI service quotes the end of the key it refuses
OpenAIErrorText(b, api_key) ==
    IF b = "denied" /\ Len(api_key) >= 4
    THEN ErrorText(b) \o ": ****" \o SubSeq(api_key, Len(api_key) - 3, Len(api_key))
    ELSE ErrorText(b)

\* the ways a request of a connection test fails: the three failures of the
\* service, and a failure inside the client library while the service is well
TestFailures == {"error", "denied", "quota", "liberror"}

Tested(success, message, requests) ==
    [success |-> success, message |-> message, requests |-> requests]

test_openai_connection(w) ==
    IF w.env["OPENAI_API_KEY"] = "" THEN Tested(FALSE, "No OpenAI API key provided", 0)
    ELSE IF ~w.OPENAI_AVAILABLE THEN Tested(FALSE, "OpenAI package not available", 0)
    ELSE LET b == Behaviour(w, "openai", "")
             error_str == Lower(OpenAIErrorText(b, w.env["OPENAI_API_KEY"]))
         IN  IF b \notin TestFailures
             THEN Tested(TRUE, "Successfully connected to OpenAI API", 1)
             ELSE IF AnyIn(<<"429", "quota", "rate limit", "capacity">>, error_str)
             THEN Tested(TRUE, "Connected to OpenAI API, but rate limit or quota reached.", 1)
             ELSE IF AnyIn(<<"auth", "key", "invalid">>, error_str)
             THEN Tested(FALSE, "Authentication error: "
                                  \o OpenAIErrorText(b, w.env["OPENAI_API_KEY"]) \o "...", 1)
             ELSE Tested(FALSE, "Failed to connect to OpenAI API: "
                                  \o OpenAIErrorText(b, w.env["OPENAI_API_KEY"]) \o "...", 1)

test_gemini_connection(w) ==
    IF w.env["GEMINI_API_KEY"] = "" THEN Tested(FALSE, "No Gemini API key provided", 0)
    ELSE IF ~w.GEMINI_AVAILABLE
    THEN Tested(FALSE, "Google Generative AI package not available", 0)
    ELSE LET b == Behaviour(w, "gemini", "")
             error_str == Lower(ErrorText(b))
             response == GeminiPost(w, "", "")
         IN  IF b \notin TestFailures
             THEN Tested(TRUE, "Successfully connected to Gemini API", 1)
             ELSE IF AnyIn(<<"429", "quota", "rate limit", "resource exhausted">>, error_str)
             THEN Tested(TRUE, "Connected to Gemini API, but quota limit reached.", 1)
             ELSE IF response.t = "raise"
             THEN Tested(FALSE, "Failed to connect to Gemini API: " \o ErrorText(b)
                                  \o "..., Direct endpoint error: " \o ErrorText(b) \o "...", 2)
             ELSE IF response.status = 200
             THEN Tested(TRUE, "Successfully connected to Gemini API (using direct endpoint)", 2)
             ELSE IF response.status = 429
             THEN Tested(TRUE, "Connected to Gemini API, but quota limit reached.", 2)
             ELSE Tested(FALSE, "Failed to connect to Gemini API endpoint: HTTP", 2)

(***************************************************************************)
(* The state: the process (environment, module flags), the remote          *)
(* services, the arguments of the call at hand and what it produced, and   *)
(* the session state of the app.                                           *)
(***************************************************************************)
VARIABLES
    env,                        \* os.environ: credential name -> value, "" absent
    OPENAI_AVAILABLE,           \* the openai package was imported
    GEMINI_AVAILABLE,           \* the google.generativeai package was imported
    GOOGLE_SEARCH_AVAILABLE,    \* both search credentials were set at import
    net,                        \* provider -> how its service answers
    seed,                       \* the state of the random module
    main_keyword, depth, custom_prompt,   \* the arguments, the fields of the form
    session_state,              \* st.session_state: the provider chosen, the keys typed
    pc,                         \* the function or handler that ran last
    out                         \* what it returned or displayed

vars == <<env, OPENAI_AVAILABLE, GEMINI_AVAILABLE, GOOGLE_SEARCH_AVAILABLE, net,
          seed, main_keyword, depth, custom_prompt, session_state, pc, out>>

CredentialNames ==
    {"OPENAI_API_KEY", "GEMINI_API_KEY", "GOOGLE_SEARCH_API_KEY", "GOOGLE_SEARCH_CX"}

\* the value a credential has when it is set
Secret ==
    [c \in CredentialNames |->
        CASE c = "OPENAI_API_KEY" -> "sk-openai"
          [] c = "GEMINI_API_KEY" -> "gemini-key"
          [] c = "GOOGLE_SEARCH_API_KEY" -> "search-key"
          [] OTHER -> "search-cx"]

\* the process and the services as the functions above read them
World ==
    [env |-> env, OPENAI_AVAILABLE |-> OPENAI_AVAILABLE,
     GEMINI_AVAILABLE |-> GEMINI_AVAILABLE,
     GOOGLE_SEARCH_AVAILABLE |-> GOOGLE_SEARCH_AVAILABLE, net |-> net, seed |-> seed]

\* the bounds of the inputs
MaxDepth == 4
MaxSeed == 1
Keywords == {"seo", "Top App"}
Prompts == {"", "use numbers"}

\* a provider is in order, or all providers not in order share one condition:
\* never configured, configured but its package (for search: the import-time
\* flag) is missing, configured at import and removed since, or a service
\* that answers in one of the ways of NetBehaviours (while OpenAI answers with
\* bad records the other services in that condition fail their requests)
Conditions == {"nocred", "nopkg", "removed"} \cup (NetBehaviours \ {"ok"})

NoOutput == [op |-> "none"]

\* app.py: the session state before the first interaction
NewSession ==
    [api_provider |-> "None", openai_api_key |-> "", gemini_api_key |-> "",
     google_search_api_key |-> "", google_search_cx |-> ""]

ProviderOf(c) ==
    IF c = "OPENAI_API_KEY" THEN "openai"
    ELSE IF c = "GEMINI_API_KEY" THEN "gemini"
    ELSE "search"

InitProcess(status) ==
    /\ env = [c \in CredentialNames |->
                IF status[ProviderOf(c)] \in {"nocred", "removed"} THEN "" ELSE Secret[c]]
    /\ OPENAI_AVAILABLE = (status["openai"] # "nopkg")
    /\ GEMINI_AVAILABLE = (status["gemini"] # "nopkg")
    /\ GOOGLE_SEARCH_AVAILABLE = (status["search"] \notin {"nocred", "nopkg"})
    /\ net = [p \in Providers |->
                IF status[p] = "badrecords" /\ p # "openai" THEN "error"
                ELSE IF status[p] \in NetBehaviours THEN status[p]
                ELSE "ok"]

Init ==
    /\ \E up \in SUBSET Providers, other \in Conditions :
          InitProcess([p \in Providers |-> IF p \in up THEN "ok" ELSE other])
    /\ seed \in 0..MaxSeed
    /\ main_keyword \in Keywords
    /\ depth \in 1..MaxDepth
    /\ custom_prompt \in Prompts
    /\ session_state = NewSession
    /\ pc = "ready"
    /\ out = NoOutput

Process ==
    <<env, OPENAI_AVAILABLE, GEMINI_AVAILABLE, GOOGLE_SEARCH_AVAILABLE, net, seed>>

Arguments == <<main_keyword, depth, custom_prompt>>

\* what a resolver did: whether it raised, its value and its capability calls
Result(op, r) == [op |-> op, exc |-> r.exc, val |-> r.val, log |-> r.log]

IntentArguments == {INTENTS[i] : i \in 1..Len(INTENTS)}

\* what generate_title did, with the intent argument it was given
TitleResult(intent, r) ==
    [op |-> "generate_title", intent |-> intent,
     exc |-> r.exc, val |-> r.val, log |-> r.log]

\* what generate_related_keywords did, with the intent argument it was given
RelatedResult(intent, r) ==
    [op |-> "generate_related_keywords", intent |-> intent,
     exc |-> r.exc, val |-> r.val, log |-> r.log]

DetermineIntent ==
    /\ pc = "ready"
    /\ pc' = "determine_intent"
    /\ out' = Result("determine_intent", determine_intent(World, main_keyword))
    /\ UNCHANGED <<Process, Arguments, session_state>>

GenerateTitle ==
    /\ pc = "ready"
    /\ pc' = "generate_title"
    /\ \E intent \in IntentArguments :
          out' = TitleResult(intent,
                             generate_title(World, main_keyword, intent, custom_prompt))
    /\ UNCHANGED <<Process, Arguments, session_state>>

GenerateCompetitors ==
    /\ pc = "ready"
    /\ pc' = "generate_competitors"
    /\ out' = Result("generate_competitors", generate_competitors(World, main_keyword))
    /\ UNCHANGED <<Process, Arguments, session_state>>

GenerateRelatedKeywords ==
    /\ pc = "ready"
    /\ pc' = "generate_related_keywords"
    /\ \E intent \in {""} \cup IntentArguments :
          out' = RelatedResult(intent,
                               generate_related_keywords(World, main_keyword, intent))
    /\ UNCHANGED <<Process, Arguments, session_state>>

\* the provider adapters, called directly
AdapterNames ==
    {"generate_title_with_openai", "determine_intent_with_openai",
     "generate_related_keywords_with_openai", "generate_competitors_with_openai",
     "generate_title_with_gemini_endpoint", "generate_title_with_gemini",
     "determine_intent_with_gemini", "generate_related_keywords_with_gemini",
     "generate_competitors_with_gemini", "generate_competitors_with_google_search"}

AdapterCall(w, name, keyword, intent, prompt) ==
    CASE name = "generate_title_with_openai" ->
            generate_title_with_openai(w, keyword, intent, prompt)
      [] name = "determine_intent_with_openai" -> determine_intent_with_openai(w, keyword)
      [] name = "generate_related_keywords_with_openai" ->
            generate_related_keywords_with_openai(w, keyword, intent)
      [] name = "generate_competitors_with_openai" ->
            generate_competitors_with_openai(w, keyword)
      [] name = "generate_title_with_gemini_endpoint" ->
            generate_title_with_gemini_endpoint(w, keyword, intent, prompt)
      [] name = "generate_title_with_gemini" ->
            generate_title_with_gemini(w, keyword, intent, prompt)
      [] name = "determine_intent_with_gemini" -> determine_intent_with_gemini(w, keyword)
      [] name = "generate_related_keywords_with_gemini" ->
            generate_related_keywords_with_gemini(w, keyword, intent)
      [] name = "generate_competitors_with_gemini" ->
            generate_competitors_with_gemini(w, keyword)
      [] OTHER -> generate_competitors_with_google_search(w, keyword)

AdapterResult(name, r) ==
    [op |-> "adapter", name |-> name, provider |-> r.provider, val |-> r.val,
     requests |-> r.requests]

CallAdapter ==
    /\ pc = "ready"
    /\ pc' = "adapter"
    /\ \E name \in AdapterNames :
          out' = AdapterResult(name, AdapterCall(World, name, main_keyword,
                                                 "Commercial", custom_prompt))
    /\ UNCHANGED <<Process, Arguments, session_state>>

\* the tree, with the capability calls reduced to who was asked and who answered
Asked(call) ==
    [cap |-> call.cap, keyword |-> call.keyword, source |-> call.source,
     tried |-> [i \in 1..Len(call.tried) |->
                  [provider |-> call.tried[i].provider,
                   requests |-> call.tried[i].requests]]]

Outcome(op, r) ==
    [op |-> op, exc |-> r.exc, val |-> r.val, expanded |-> r.expanded,
     log |-> [i \in 1..Len(r.log) |-> Asked(r.log[i])]]

GenerateKeywordStructure ==
    /\ pc = "ready"
    /\ pc' = "generate_keyword_structure"
    /\ out' = Outcome("generate_keyword_structure",
                      generate_keyword_structure(World, main_keyword, depth, custom_prompt))
    /\ UNCHANGED <<Process, Arguments, session_state>>

Next ==
    \/ DetermineIntent
    \/ GenerateTitle
    \/ GenerateCompetitors
    \/ GenerateRelatedKeywords
    \/ CallAdapter
    \/ GenerateKeywordStructure

Spec == Init /\ [][Next]_vars

(***************************************************************************)
(* The app: one action per interaction, each the whole rerun of app.py it  *)
(* triggers.  A rerun that is not a submission displays no tree.           *)
(***************************************************************************)
\* the depths of the form's slider that are explored
AppMaxDepth == 2
AppKeywords == {"", "seo"}

ApiProviders == {"None", "OpenAI", "Google Gemini"}

\* the app is launched with or without the two search credentials
InitApp ==
    /\ \E launched \in BOOLEAN :
          /\ env = [c \in CredentialNames |->
                      IF launched /\ ProviderOf(c) = "search" THEN Secret[c] ELSE ""]
          /\ GOOGLE_SEARCH_AVAILABLE = launched
    /\ OPENAI_AVAILABLE = TRUE
    /\ GEMINI_AVAILABLE = TRUE
    /\ net = [p \in Providers |-> "ok"]
    /\ seed = 0
    /\ main_keyword = ""
    /\ depth = 2
    /\ custom_prompt = ""
    /\ session_state = NewSession
    /\ pc = "idle"
    /\ out = NoOutput

Installed == <<OPENAI_AVAILABLE, GEMINI_AVAILABLE, GOOGLE_SEARCH_AVAILABLE, net, seed>>

\* a rerun with no button pressed
Rerun ==
    /\ pc' = "idle"
    /\ out' = NoOutput
    /\ UNCHANGED <<env, Installed, Arguments>>

\* the radio of the AI providers
SelectProvider ==
    /\ \E option \in ApiProviders :
          session_state' = [session_state EXCEPT !.api_provider = option]
    /\ Rerun

\* the text inputs: the OpenAI and Gemini inputs are drawn only while their
\* provider is selected
EnterOpenAIKey ==
    /\ session_state.api_provider = "OpenAI"
    /\ \E text \in {"", Secret["OPENAI_API_KEY"]} :
          session_state' = [session_state EXCEPT !.openai_api_key = text]
    /\ Rerun

EnterGeminiKey ==
    /\ session_state.api_provider = "Google Gemini"
    /\ \E text \in {"", Secret["GEMINI_API_KEY"]} :
          session_state' = [session_state EXCEPT !.gemini_api_key = text]
    /\ Rerun

EnterSearchKey ==
    /\ \E text \in {"", Secret["GOOGLE_SEARCH_API_KEY"]} :
          session_state' = [session_state EXCEPT !.google_search_api_key = text]
    /\ Rerun

EnterSearchCx ==
    /\ \E text \in {"", Secret["GOOGLE_SEARCH_CX"]} :
          session_state' = [session_state EXCEPT !.google_search_cx = text]
    /\ Rerun

\* what a Test Connection button shows
TestShown(op, r) == [op |-> op, success |-> r.success, message |-> r.message]

TestOpenAI ==
    /\ session_state.api_provider = "OpenAI"
    /\ pc' = "tested"
    /\ IF session_state.openai_api_key # ""
       THEN /\ env' = [env EXCEPT !["OPENAI_API_KEY"] = session_state.openai_api_key]
            /\ out' = TestShown("test_openai",
                         test_openai_connection(
                             [World EXCEPT !.env["OPENAI_API_KEY"] =
                                               session_state.openai_api_key]))
       ELSE /\ env' = env
            /\ out' = [op |-> "test_openai", success |-> FALSE,
                       message |-> "Please enter an OpenAI API key first"]
    /\ UNCHANGED <<Installed, Arguments, session_state>>

TestGemini ==
    /\ session_state.api_provider = "Google Gemini"
    /\ pc' = "tested"
    /\ IF session_state.gemini_api_key # ""
       THEN /\ env' = [env EXCEPT !["GEMINI_API_KEY"] = session_state.gemini_api_key]
            /\ out' = TestShown("test_gemini",
                         test_gemini_connection(
                             [World EXCEPT !.env["GEMINI_API_KEY"] =
                                               session_state.gemini_api_key]))
       ELSE /\ env' = env
            /\ out' = [op |-> "test_gemini", success |-> FALSE,
                       message |-> "Please enter a Gemini API key first"]
    /\ UNCHANGED <<Installed, Arguments, session_state>>

\* the submit handler: the branch taken for the AI provider
AiBranch(ss) ==
    IF ss.api_provider = "OpenAI" /\ ss.openai_api_key # "" THEN "OpenAI"
    ELSE IF ss.api_provider = "Google Gemini" /\ ss.gemini_api_key # "" THEN "Google Gemini"
    ELSE "rules"

AiInfo(ss) ==
    IF AiBranch(ss) = "OpenAI" THEN "Using OpenAI for enhanced keyword generation."
    ELSE IF AiBranch(ss) = "Google Gemini"
    THEN "Using Google Gemini for enhanced keyword generation."
    ELSE "Using built-in rules for keyword generation."

SearchEntered(ss) == ss.google_search_api_key # "" /\ ss.google_search_cx # ""

\* os.environ after the assignments of the submit handler
SubmitEnv(e, ss) ==
    [c \in CredentialNames |->
        CASE c = "OPENAI_API_KEY" /\ AiBranch(ss) = "OpenAI" -> ss.openai_api_key
          [] c = "GEMINI_API_KEY" /\ AiBranch(ss) = "Google Gemini" -> ss.gemini_api_key
          [] c = "GOOGLE_SEARCH_API_KEY" /\ SearchEntered(ss) -> ss.google_search_api_key
          [] c = "GOOGLE_SEARCH_CX" /\ SearchEntered(ss) -> ss.google_search_cx
          [] OTHER -> e[c]]

Shown(keyword, d, info, r) ==
    [op |-> "submit", keyword |-> keyword, depth |-> d, info |-> info,
     exc |-> r.exc, val |-> r.val, expanded |-> r.expanded, log |-> r.log]

\* Submit with the test on main_keyword left out of the handler's condition
SubmitWithoutValidation ==
    /\ \E keyword \in AppKeywords, d \in 1..AppMaxDepth :
          /\ pc' = "submitted"
          /\ env' = SubmitEnv(env, session_state)
          /\ out' = Shown(keyword, d, AiInfo(session_state),
                       Outcome("submit",
                           generate_keyword_structure(
                               [World EXCEPT !.env = SubmitEnv(env, session_state)],
                               keyword, d, custom_prompt)))
    /\ UNCHANGED <<Installed, Arguments, session_state>>

\* the form: the keyword typed and the depth of the slider come with the
\* submission
Submit ==
    /\ \E keyword \in AppKeywords, d \in 1..AppMaxDepth :
          IF keyword # ""
          THEN /\ pc' = "submitted"
               /\ env' = SubmitEnv(env, session_state)
               /\ out' = Shown(keyword, d, AiInfo(session_state),
                            Outcome("submit",
                                generate_keyword_structure(
                                    [World EXCEPT !.env = SubmitEnv(env, session_state)],
                                    keyword, d, custom_prompt)))
          ELSE /\ pc' = "rejected"
               /\ env' = env
               /\ out' = [op |-> "submit", keyword |-> keyword, depth |-> d,
                          error |-> "Please enter a main keyword to generate the mindmap."]
    /\ UNCHANGED <<Installed, Arguments, session_state>>

NextApp ==
    \/ SelectProvider
    \/ EnterOpenAIKey
    \/ EnterGeminiKey
    \/ EnterSearchKey
    \/ EnterSearchCx
    \/ TestOpenAI
    \/ TestGemini
    \/ Submit

SpecApp == InitApp /\ [][NextApp]_vars

(***************************************************************************)
(* The rule engine on its own: the resolvers are called on keywords that   *)
(* take each branch of the rules, while no provider yields a result (not   *)
(* configured, failing, or answering nothing usable).                      *)
(***************************************************************************)
RuleMaxSeed == 3

RuleCaseKeywords ==
    {"best running shoes", "how to tie a knot", "app login page", "Top App",
     "seo", "Laptop Support"}

RuleConditions == {"nocred", "error", "empty"}

\* custom instructions with a number term, a formal term, both and neither
RulePrompts ==
    {"", "use numbers", "Formal tone", "Add Numbers, be professional", "for kids"}

InitRules ==
    /\ \E other \in RuleConditions : InitProcess([p \in Providers |-> other])
    /\ seed \in 0..RuleMaxSeed
    /\ main_keyword \in RuleCaseKeywords
    /\ depth = 1
    /\ custom_prompt \in RulePrompts
    /\ session_state = NewSession
    /\ pc = "ready"
    /\ out = NoOutput

NextRules ==
    \/ DetermineIntent
    \/ GenerateTitle
    \/ GenerateCompetitors
    \/ GenerateRelatedKeywords

SpecRules == InitRules /\ [][NextRules]_vars

(***************************************************************************)
(* Two builds of one tree: generate_keyword_structure called twice in the   *)
(* same process, with the same arguments but for the custom instruction.   *)
(***************************************************************************)
PairMaxDepth == 3

InitPair ==
    /\ \E up \in SUBSET Providers, other \in Conditions :
          InitProcess([p \in Providers |-> IF p \in up THEN "ok" ELSE other])
    /\ seed \in 0..MaxSeed
    /\ main_keyword \in Keywords
    /\ depth \in 1..PairMaxDepth
    /\ custom_prompt \in Prompts
    /\ session_state = NewSession
    /\ pc = "ready"
    /\ out = NoOutput

PairOutcome(other, a, b) ==
    [op |-> "pair", custom_prompt |-> other,
     exc |-> <<a.exc, b.exc>>, val |-> <<a.val, b.val>>]

BuildPair ==
    /\ pc = "ready"
    /\ pc' = "pair"
    /\ \E other \in Prompts \ {custom_prompt} :
          out' = PairOutcome(other,
                     generate_keyword_structure(World, main_keyword, depth, custom_prompt),
                     generate_keyword_structure(World, main_keyword, depth, other))
    /\ UNCHANGED <<Process, Arguments, session_state>>

NextPair == BuildPair

SpecPair == InitPair /\ [][NextPair]_vars

(***************************************************************************)
(* The connection tests on their own: each is called with its key absent,  *)
(* accepted or refused, its package present or not, and its service        *)
(* answering or failing in one of the ways of TestFailures.                *)
(***************************************************************************)
\* the OpenAI keys tried: none, the one the service knows, and another one
TestOpenAIKeys == {"", "sk-openai", "sk-live-4291"}

InitTest ==
    /\ \E openai_key \in TestOpenAIKeys, gemini_key \in {"", "gemini-key"} :
          env = [c \in CredentialNames |->
                    IF c = "OPENAI_API_KEY" THEN openai_key
                    ELSE IF c = "GEMINI_API_KEY" THEN gemini_key
                    ELSE ""]
    /\ OPENAI_AVAILABLE \in BOOLEAN
    /\ GEMINI_AVAILABLE \in BOOLEAN
    /\ GOOGLE_SEARCH_AVAILABLE = FALSE
    /\ \E o \in {"ok"} \cup (TestFailures \ {"liberror"}), g \in {"ok"} \cup TestFailures :
          net = [p \in Providers |->
                    IF p = "openai" THEN o ELSE IF p = "gemini" THEN g ELSE "ok"]
    /\ seed = 0
    /\ main_keyword = ""
    /\ depth = 1
    /\ custom_prompt = ""
    /\ session_state = NewSession
    /\ pc = "ready"
    /\ out = NoOutput

\* what a connection test returned, and the requests it sent
TestReturned(op, r) ==
    [op |-> op, success |-> r.success, message |-> r.message, requests |-> r.requests]

TestOpenAIConnection ==
    /\ pc = "ready"
    /\ pc' = "test_openai_connection"
    /\ out' = TestReturned("test_openai_connection", test_openai_connection(World))
    /\ UNCHANGED <<Process, Arguments, session_state>>

TestGeminiConnection ==
    /\ pc = "ready"
    /\ pc' = "test_gemini_connection"
    /\ out' = TestReturned("test_gemini_connection", test_gemini_connection(World))
    /\ UNCHANGED <<Process, Arguments, session_state>>

NextTest == TestOpenAIConnection \/ TestGeminiConnection

SpecTest == InitTest /\ [][NextTest]_vars

(***************************************************************************)
(* app.py and data_processor.py after the build: the submit handler hands  *)
(* keyword_data, the tree generate_keyword_structure returned, to the      *)
(* visualisation, the exports and the structured display.  The trees are   *)
(* drawn from a bounded family: keywords that repeat, that share a cleaned *)
(* id, that hold a comma or are empty, with up to ViewMaxChildren children *)
(* under the root and a third level under some of them.                    *)
(***************************************************************************)
ViewMaxChildren == 2

ViewKeywords == {"seo", "seo 1", "seo, tips", ""}

\* a node as generate_keyword_node builds it, its title with quotation marks
\* inside, as a provider may write it
ViewNode(keyword, children) ==
    [Node(keyword, RuleIntent(keyword),
          IF keyword = "seo 1" THEN "Seo 1: the \"Complete\" Guide"
          ELSE Title(keyword) \o " 101: Beginner's Guide to Success",
          1000 + 100 * Len(keyword),
          IF keyword = "seo" THEN <<>>
          ELSE <<[title |-> Title(keyword) \o " - Complete Guide and Resources",
                  url |-> "https://www.moz.com/"
                              \o Replace(Lower(keyword), " ", "-") \o "/"]>>)
        EXCEPT !.children = children]

ViewLeaves == {ViewNode(k, <<>>) : k \in ViewKeywords}

ViewSubtrees ==
    ViewLeaves \cup {ViewNode(k, <<ViewNode("seo", <<>>)>>) : k \in ViewKeywords}

ViewTrees ==
    {ViewNode(k, children) :
        k \in ViewKeywords,
        children \in UNION {[1..n -> ViewSubtrees] : n \in 0..ViewMaxChildren}}

InitView ==
    /\ env = [c \in CredentialNames |-> ""]
    /\ OPENAI_AVAILABLE = TRUE
    /\ GEMINI_AVAILABLE = TRUE
    /\ GOOGLE_SEARCH_AVAILABLE = FALSE
    /\ net = [p \in Providers |-> "ok"]
    /\ seed = 0
    /\ \E keyword_data \in ViewTrees :
          /\ main_keyword = keyword_data.keyword
          /\ out = [op |-> "generate_keyword_structure", val |-> keyword_data]
    /\ depth = 3
    /\ custom_prompt = ""
    /\ session_state = NewSession
    /\ pc = "generate_keyword_structure"

\* the concatenation of a sequence of sequences
RECURSIVE Concat(_)
Concat(seqs) == IF Len(seqs) = 0 THEN <<>> ELSE Head(seqs) \o Concat(Tail(seqs))

\* extract_keywords: what the call on node appends to all_keywords and to
\* all_keywords_with_intent, and node as the call leaves it
RECURSIVE extract_keywords(_)
extract_keywords(node) ==
    LET below == [i \in DOMAIN node.children |-> extract_keywords(node.children[i])]
    IN  [node |-> [node EXCEPT !.children = [i \in DOMAIN below |-> below[i].node]],
         all_keywords |->
             <<node.keyword>> \o Concat([i \in DOMAIN below |-> below[i].all_keywords]),
         all_keywords_with_intent |->
             <<node.keyword \o "," \o node.intent \o "," \o ToString(node.word_count)
                  \o ",\"" \o node.title \o "\"">>
                 \o Concat([i \in DOMAIN below |-> below[i].all_keywords_with_intent])]

\* the two download buttons of the keywords tab
KeywordExports(keyword_data, e) ==
    [op |-> "extract_keywords", val |-> keyword_data, after |-> e.node,
     keywords_text |-> Join(e.all_keywords, "\n"),
     csv_text |-> "Keyword,Intent,Word Count,Title\n"
                      \o Join(e.all_keywords_with_intent, "\n")]

ExtractKeywords ==
    /\ pc = "generate_keyword_structure"
    /\ pc' = "extract_keywords"
    /\ out' = KeywordExports(out.val, extract_keywords(out.val))
    /\ UNCHANGED <<Process, Arguments, session_state>>

\* json.dumps of a str: the characters JSON does not allow in a string are
\* written as escapes, between quotation marks
RECURSIVE JsonEscape(_)
JsonEscape(s) ==
    IF s = "" THEN ""
    ELSE (CASE Head(s) = "\"" -> "\\\""
            [] Head(s) = "\\" -> "\\\\"
            [] Head(s) = "\n" -> "\\n"
            [] OTHER -> Head(s)) \o JsonEscape(Tail(s))

\* JsonString with the characters of the text written as they are
JsonStringVerbatim(s) == "\"" \o s \o "\""

JsonString(s) == "\"" \o JsonEscape(s) \o "\""

\* the items of a JSON array or object, a comma between two of them
RECURSIVE Separated(_)
Separated(items) ==
    IF Len(items) = 0 THEN <<>>
    ELSE IF Len(items) = 1 THEN items[1]
    ELSE items[1] \o <<",">> \o Separated(Tail(items))

JsonMember(key, value) == <<JsonString(key), ":">> \o value

JsonArray(items) == <<"[">> \o Separated(items) \o <<"]">>

JsonObject(members) == <<"{">> \o Separated(members) \o <<"}">>

\* json.dumps(keyword_data, indent=2): the JSON text as the sequence of its
\* tokens (the white space between them left out), the keys of a dict in the
\* order generate_keyword_node and generate_competitors insert them
RECURSIVE JsonDumps(_)
JsonDumps(node) ==
    JsonObject(<<
        JsonMember("keyword", <<JsonString(node.keyword)>>),
        JsonMember("intent", <<JsonString(node.intent)>>),
        JsonMember("title", <<JsonString(node.title)>>),
        JsonMember("word_count", <<ToString(node.word_count)>>),
        JsonMember("competitors",
            JsonArray([i \in DOMAIN node.competitors |->
                JsonObject(<<
                    JsonMember("title", <<JsonString(node.competitors[i].title)>>),
                    JsonMember("url", <<JsonString(node.competitors[i].url)>>)>>)])),
        JsonMember("children",
            JsonArray([i \in DOMAIN node.children |-> JsonDumps(node.children[i])]))>>)

\* the Export as JSON download button
ExportJson ==
    /\ pc = "generate_keyword_structure"
    /\ pc' = "export_json"
    /\ out' = [op |-> "export_json", val |-> out.val, after |-> out.val,
               data |-> JsonDumps(out.val)]
    /\ UNCHANGED <<Process, Arguments, session_state>>

\* clean_id: every character that is no ASCII letter or digit becomes "_"
RECURSIVE clean_id(_)
clean_id(text) ==
    IF text = "" THEN ""
    ELSE (IF IsCased(Head(text)) \/ Contains(Head(text), "0123456789")
          THEN Head(text) ELSE "_") \o clean_id(Tail(text))

\* UnusedId without the loop: one suffix is tried
UnusedIdTriedOnce(base_id, node_id, counter, used_ids) ==
    IF node_id \in used_ids THEN base_id \o "_" \o ToString(counter) ELSE node_id

\* the while loop of process_node: the first of base_id, base_id_1, base_id_2,
\* ... that is not in used_ids
RECURSIVE UnusedId(_, _, _, _)
UnusedId(base_id, node_id, counter, used_ids) ==
    IF node_id \in used_ids
    THEN UnusedId(base_id, base_id \o "_" \o ToString(counter), counter + 1, used_ids)
    ELSE node_id

\* the tooltip of a graph node
RECURSIVE CompetitorLines(_)
CompetitorLines(competitors) ==
    IF Len(competitors) = 0 THEN ""
    ELSE "\n* " \o (IF "title" \in DOMAIN Head(competitors)
                     THEN Head(competitors).title ELSE "Unknown")
             \o CompetitorLines(Tail(competitors))

Tooltip(node) ==
    "Intent: " \o node.intent \o "\nWord Count: " \o ToString(node.word_count)
        \o "\nTitle: " \o node.title
        \o (IF Len(node.competitors) > 0
            THEN "\n\nTop Competitors:" \o CompetitorLines(Take(node.competitors, 3))
            ELSE "")

\* the Node of streamlit_agraph process_node creates; level is the depth
\* parameter of process_node
GraphNode(node, node_id, level) ==
    [id |-> node_id, label |-> node.keyword,
     size |-> IF level = 0 THEN 15 ELSE IF level = 1 THEN 12 ELSE 10,
     color |-> IF node.intent = "Commercial" THEN "#4CAF50"
               ELSE IF node.intent = "Informational" THEN "#2196F3"
               ELSE "#FFC107",
     title |-> Tooltip(node)]

\* process_node on node, given nodes, edges and used_ids as g holds them:
\* the three after the call, and node as the call leaves it
RECURSIVE process_node(_, _, _, _)
RECURSIVE ProcessChildren(_, _, _, _, _)
process_node(node, parent_id, level, g) ==
    LET base_id == clean_id(node.keyword)
        node_id == UnusedId(base_id, base_id, 1, g.used_ids)
    IN  ProcessChildren(node, 1, node_id, level + 1,
            [nodes |-> Append(g.nodes, GraphNode(node, node_id, level)),
             edges |-> IF Truthy(parent_id)
                       THEN Append(g.edges, [source |-> parent_id.v, target |-> node_id])
                       ELSE g.edges,
             used_ids |-> g.used_ids \cup {node_id},
             node |-> node])

\* the loop over node["children"], from the i-th child on
ProcessChildren(node, i, node_id, level, g) ==
    IF i > Len(node.children) THEN [g EXCEPT !.node = node]
    ELSE LET r == process_node(node.children[i], PyStr(node_id), level, g)
         IN  ProcessChildren([node EXCEPT !.children[i] = r.node], i + 1,
                             node_id, level, r)

\* process_data_for_visualization with the tooltip of the root kept in the
\* root's title
ProcessDataKeepingTooltip(keyword_data) ==
    LET r == process_node(keyword_data, PyNone, 0,
                 [nodes |-> <<>>, edges |-> <<>>, used_ids |-> {}, node |-> keyword_data])
    IN  [r EXCEPT !.node.title = r.nodes[1].title]

\* process_data_for_visualization with the root given its own id as parent
ProcessDataRootLinked(keyword_data) ==
    process_node(keyword_data, PyStr(clean_id(keyword_data.keyword)), 0,
        [nodes |-> <<>>, edges |-> <<>>, used_ids |-> {}, node |-> keyword_data])

process_data_for_visualization(keyword_data) ==
    process_node(keyword_data, PyNone, 0,
        [nodes |-> <<>>, edges |-> <<>>, used_ids |-> {}, node |-> keyword_data])

ProcessForVisualization ==
    /\ pc = "generate_keyword_structure"
    /\ pc' = "process_data_for_visualization"
    /\ LET r == process_data_for_visualization(out.val)
       IN  out' = [op |-> "process_data_for_visualization", val |-> out.val,
                   after |-> r.node, nodes |-> r.nodes, edges |-> r.edges]
    /\ UNCHANGED <<Process, Arguments, session_state>>

\* the indentation of a level of the structured display
RECURSIVE Indent(_)
Indent(level) == IF level = 0 THEN "" ELSE "  " \o Indent(level - 1)

\* display_keyword_data: the markdown written for node and below it, and node
\* as the call leaves it
RECURSIVE display_keyword_data(_, _)
display_keyword_data(node, level) ==
    LET below == [i \in DOMAIN node.children |->
                     display_keyword_data(node.children[i], level + 1)]
    IN  [node |-> [node EXCEPT !.children = [i \in DOMAIN below |-> below[i].node]],
         markdown |->
             <<Indent(level) \o "**" \o node.keyword \o "** (" \o node.intent \o ")",
               Indent(level) \o "  Word Count: " \o ToString(node.word_count),
               Indent(level) \o "  Title: *" \o node.title \o "*">>
                 \o (IF Len(node.competitors) > 0
                     THEN <<Indent(level) \o "  **Competitors:**">>
                              \o [i \in DOMAIN node.competitors |->
                                     Indent(level) \o "  " \o ToString(i) \o ". ["
                                         \o node.competitors[i].title \o "]("
                                         \o node.competitors[i].url \o ")"]
                     ELSE <<>>)
                 \o Concat([i \in DOMAIN below |-> below[i].markdown])]

DisplayKeywordData ==
    /\ pc = "generate_keyword_structure"
    /\ pc' = "display_keyword_data"
    /\ LET r == display_keyword_data(out.val, 0)
       IN  out' = [op |-> "display_keyword_data", val |-> out.val,
                   after |-> r.node, markdown |-> r.markdown]
    /\ UNCHANGED <<Process, Arguments, session_state>>

NextView ==
    \/ ProcessForVisualization
    \/ ExtractKeywords
    \/ ExportJson
    \/ DisplayKeywordData

SpecView == InitView /\ [][NextView]_vars

(***************************************************************************)
(* The properties                                                          *)
(***************************************************************************)
ResolverOps ==
    {"determine_intent", "generate_title", "generate_competitors",
     "generate_related_keywords"}

\* generate_keyword_structure has returned a tree
TreeReturned == pc = "generate_keyword_structure" /\ ~out.exc

Min(a, b) == IF a < b THEN a ELSE b

RECURSIVE Height(_)
Height(node) ==
    IF Len(node.children) = 0 THEN 0
    ELSE LET below == {Height(node.children[i]) : i \in 1..Len(node.children)}
         IN  1 + CHOOSE h \in below : \A g \in below : g <= h

\* the nodes k levels below a node
RECURSIVE NodesAt(_, _)
NodesAt(node, k) ==
    IF k = 0 THEN {node}
    ELSE UNION {NodesAt(node.children[i], k - 1) : i \in 1..Len(node.children)}

ChildKeywords(node) == [i \in 1..Len(node.children) |-> node.children[i].keyword]

Expanded(path) == \E i \in 1..Len(out.expanded) : out.expanded[i].path = path

\* what generate_related_keywords returned for the node at a path
ReturnedAt(path) ==
    out.expanded[CHOOSE i \in 1..Len(out.expanded) : out.expanded[i].path = path].returned

\* the credentials of a provider are in the environment
CredentialsPresent(p) ==
    \A c \in CredentialNames : ProviderOf(c) = p => env[c] # ""

AllTried(log) ==
    UNION {{log[i].tried[j] : j \in 1..Len(log[i].tried)} : i \in 1..Len(log)}

\* C1: for every keyword, every depth in 1..3 and every provider outcome, the
\* root of the tree generate_keyword_structure returns has at most 5 children.
C1_RootHasAtMostFiveChildren ==
    (TreeReturned /\ depth \in 1..3) => Len(out.val.children) <= 5

\* C2: in a returned tree a level-1 node has at most 3 children, and only if
\* depth >= 2, a level-2 node has at most 2 children, and only if depth >= 3;
\* the children are the first 3 (first 2) keywords generate_related_keywords
\* returned for the node, in the order returned.
C2_ChildrenAreFirstRelated ==
    TreeReturned =>
        \A i \in 1..Len(out.val.children) :
            LET first == out.val.children[i]
            IN  /\ Len(first.children) <= 3
                /\ (Len(first.children) > 0 => depth >= 2)
                /\ (depth >= 2 =>
                       /\ Expanded(<<i>>)
                       /\ ChildKeywords(first) = Take(Iterate(ReturnedAt(<<i>>)), 3))
                /\ \A j \in 1..Len(first.children) :
                      LET second == first.children[j]
                      IN  /\ Len(second.children) <= 2
                          /\ (Len(second.children) > 0 => depth >= 3)
                          /\ (depth >= 3 =>
                                 /\ Expanded(<<i, j>>)
                                 /\ ChildKeywords(second)
                                       = Take(Iterate(ReturnedAt(<<i, j>>)), 2))

\* a tree of depth 3 or more in which a level-1 node and a level-2 node were cut
\* to 3 and 2 children from longer lists
C2_Witness ==
    /\ TreeReturned
    /\ depth >= 3
    /\ Len(Iterate(ReturnedAt(<<1>>))) > 3
    /\ Len(out.val.children[1].children) = 3
    /\ Len(Iterate(ReturnedAt(<<1, 1>>))) > 2
    /\ Len(out.val.children[1].children[1].children) = 2

\* C3: for every depth >= 1 the returned tree has height exactly
\* min(depth, 3), and every node at level min(depth, 3) has no children.
C3_HeightIsMinDepthThree ==
    TreeReturned =>
        /\ Height(out.val) = Min(depth, 3)
        /\ \A node \in NodesAt(out.val, Min(depth, 3)) : node.children = <<>>

\* a tree asked with a depth above 3 that came back with height 3
C3_Witness == TreeReturned /\ depth > 3 /\ Height(out.val) = 3

\* C4: whether a provider is consulted in a capability call is decided by the
\* credentials in the environment at the moment of the call: once the submit
\* handler has set both search credentials, the competitors calls of the build
\* try web search first, and a provider without credentials is not used.
C4_ConsultedByCredentialsAtCallTime ==
    pc = "submitted" =>
        \A i \in 1..Len(out.log) :
            /\ (out.log[i].cap = "competitors" /\ CredentialsPresent("search")) =>
                   /\ Len(out.log[i].tried) > 0
                   /\ out.log[i].tried[1].provider = "search"
            /\ \A j \in 1..Len(out.log[i].tried) :
                   CredentialsPresent(out.log[i].tried[j].provider)

\* the order of the providers of a capability
Order(cap) ==
    IF cap = "competitors" THEN <<"search", "openai", "gemini">>
    ELSE <<"openai", "gemini">>

\* a provider is enabled: its credentials are present (and its package, if it
\* has one, is installed)
Enabled(p) ==
    /\ CredentialsPresent(p)
    /\ p = "openai" => OPENAI_AVAILABLE
    /\ p = "gemini" => GEMINI_AVAILABLE

\* C5: in each capability call the providers are consulted in the order web
\* search (competitors only), OpenAI, Gemini, Rule Engine; the value returned
\* is the result of the first enabled provider whose result is non-empty, and
\* no provider after it is called.
C5_FirstEnabledNonEmptyWins ==
    pc \in ResolverOps =>
        \A i \in 1..Len(out.log) :
            LET call == out.log[i]
                enabled == SelectSeq(Order(call.cap), Enabled)
                k == Len(call.tried)
            IN  /\ k <= Len(enabled)
                /\ \A j \in 1..k : call.tried[j].provider = enabled[j]
                /\ \A j \in 1..(k - 1) : ~Truthy(call.tried[j].val)
                /\ IF k > 0 /\ Truthy(call.tried[k].val)
                   THEN /\ call.source = call.tried[k].provider
                        /\ \/ call.val = call.tried[k].val
                           \/ /\ Sliceable(call.tried[k].val)
                              /\ call.val = Slice(call.tried[k].val, 10)
                   ELSE k = Len(enabled) /\ call.source = "rule"

\* C6: for every capability and every combination of providers that are
\* disabled, failing or returning empty, the resolver returns a non-empty
\* result: a category of INTENTS, a non-empty title, a non-empty keyword list,
\* a non-empty competitor list.
C6_ResolverNeverEmpty ==
    pc \in ResolverOps =>
        /\ ~out.exc
        /\ pc = "determine_intent" => out.val.t = "str" /\ out.val.v \in IntentArguments
        /\ pc = "generate_title" => out.val.t = "str" /\ out.val.v # ""
        /\ pc = "generate_related_keywords" => out.val.t = "list" /\ out.val.v # <<>>
        /\ pc = "generate_competitors" => out.val.t = "list" /\ out.val.v # <<>>

\* C7: in any sequence of interactions a build consults only the AI provider
\* that is selected with a non-empty key, and none when the app reports
\* "Using built-in rules for keyword generation.".
C7_OnlySelectedAiProviderConsulted ==
    pc = "submitted" =>
        \A t \in AllTried(out.log) :
            \/ t.provider = "search"
            \/ t.provider = "openai" /\ AiBranch(session_state) = "OpenAI"
            \/ t.provider = "gemini" /\ AiBranch(session_state) = "Google Gemini"

\* C8: a provider whose credential is absent at call time is sent no request in
\* any capability call or adapter call; a tree build with no provider
\* configured sends no request at all and every capability is answered by the
\* Rule Engine.
C8_NoRequestWithoutCredential ==
    /\ pc \in ResolverOps \cup {"generate_keyword_structure"} =>
          \A t \in AllTried(out.log) :
              ~CredentialsPresent(t.provider) => t.requests = 0
    /\ pc = "adapter" => (~CredentialsPresent(out.provider) => out.requests = 0)
    /\ (pc = "generate_keyword_structure" /\ \A c \in CredentialNames : env[c] = "") =>
          /\ ~out.exc
          /\ \A i \in 1..Len(out.log) : out.log[i].source = "rule"
          /\ \A t \in AllTried(out.log) : t.requests = 0

\* a tree built with no credential in the environment by a module that was
\* loaded with the search credentials: every competitors call reaches the
\* search adapter, which has to stop at its own check
C8_Witness ==
    /\ pc = "generate_keyword_structure"
    /\ \A c \in CredentialNames : env[c] = ""
    /\ \E t \in AllTried(out.log) : t.provider = "search"

\* the empty value of an adapter
EmptyValue(name) ==
    IF name \in {"generate_title_with_openai", "generate_title_with_gemini_endpoint",
                 "generate_title_with_gemini"}
    THEN PyStr("")
    ELSE IF name \in {"determine_intent_with_openai", "determine_intent_with_gemini"}
    THEN PyNone
    ELSE PyList(<<>>)

\* the credential is missing, the request fails or the response is malformed
Failing(p) ==
    \/ ~CredentialsPresent(p)
    \/ Behaviour(World, p, main_keyword) \in {"error", "denied", "badjson", "badshape"}

\* C9: every adapter returns its empty value ('' for a title, None for an
\* intent, [] for a list) whenever the credential is missing, the request fails
\* or the response is malformed.
C9_AdapterEmptyOnFailure ==
    (pc = "adapter" /\ Failing(out.provider)) => out.val = EmptyValue(out.name)

\* C10: generate_keyword_structure returns a complete tree, without raising,
\* for every combination of provider failures; a failing capability is
\* answered by the next provider or the Rule Engine.
C10_TreeBuildNeverRaises ==
    pc = "generate_keyword_structure" =>
        /\ ~out.exc
        /\ \A i \in 1..Len(out.log) : out.log[i].source \in Providers \cup {"rule"}

\* C11: within one capability call of a resolver each provider receives at
\* most one request: a provider that failed or returned empty is not asked a
\* second time before the resolver goes on.
C11_OneRequestPerProviderPerCall ==
    pc \in ResolverOps \cup {"generate_keyword_structure"} =>
        \A t \in AllTried(out.log) : t.requests <= 1

\* a competitor record: a dict of a title and a url
IsCompetitorRecord(c) == DOMAIN c = {"title", "url"}

\* the fields a node must carry
NodeComplete(node) ==
    /\ node.keyword # ""
    /\ node.intent \in IntentArguments
    /\ node.title # ""
    /\ node.word_count \in Nat /\ node.word_count > 0
    /\ node.competitors.t = "list"
    /\ Len(node.competitors.v) <= 3
    /\ \A i \in 1..Len(node.competitors.v) : IsCompetitorRecord(node.competitors.v[i])
    /\ DOMAIN node.children = 1..Len(node.children)

RECURSIVE TreeComplete(_)
TreeComplete(node) ==
    /\ NodeComplete(node)
    /\ \A i \in 1..Len(node.children) : TreeComplete(node.children[i])

\* C12: every node of every returned tree, at every level and under every
\* provider outcome, has a non-empty keyword, an intent of INTENTS, a non-empty
\* title, a positive integer word_count, a competitors list of at most 3
\* records of a title and a url, and a children list.
C12_EveryNodeFullyPopulated == TreeReturned => TreeComplete(out.val)

\* word_count lies in the range of the intent
InRangeOfIntent(intent, word_count) ==
    CASE intent = "Informational" -> word_count >= 1500 /\ word_count <= 2500
      [] intent = "Commercial" -> word_count >= 1200 /\ word_count <= 2000
      [] intent = "Navigational" -> word_count >= 800 /\ word_count <= 1500
      [] OTHER -> FALSE

RECURSIVE WordCountsInRange(_)
WordCountsInRange(node) ==
    /\ InRangeOfIntent(node.intent, node.word_count)
    /\ \A i \in 1..Len(node.children) : WordCountsInRange(node.children[i])

\* C13: for every node of a generated tree, the root with its random intent
\* included, word_count lies in the range of the node's own intent:
\* [1500,2500] Informational, [1200,2000] Commercial, [800,1500] Navigational.
C13_WordCountInRangeOfIntent == TreeReturned => WordCountsInRange(out.val)

\* a tree whose root drew an intent other than the one the rules give its
\* keyword, with a child of yet another intent
C13_Witness ==
    /\ TreeReturned
    /\ out.val.intent # RuleIntent(main_keyword)
    /\ \E i \in 1..Len(out.val.children) :
          out.val.children[i].intent \notin {out.val.intent, RuleIntent(main_keyword)}

\* the number of nodes of a tree: the node and the nodes of its children from
\* the i-th on
RECURSIVE NodeCountFrom(_, _)
NodeCountFrom(node, i) ==
    IF i > Len(node.children) THEN 1
    ELSE NodeCountFrom(node.children[i], 1) + NodeCountFrom(node, i + 1)

NodeCount(node) == NodeCountFrom(node, 1)

\* C14: a tree built at depth 3 has at most 1 + 5 + 15 + 30 = 51 nodes, at
\* depth 2 at most 21 and at depth 1 at most 6, for every keyword and provider
\* outcome.
C14_AtMostFiftyOneNodes ==
    TreeReturned =>
        /\ depth = 1 => NodeCount(out.val) <= 6
        /\ depth = 2 => NodeCount(out.val) <= 21
        /\ depth = 3 => NodeCount(out.val) <= 51

\* the lower-cased keyword contains one of the indicators as a substring
Indicated(indicators, keyword) ==
    \E i \in DOMAIN indicators : Contains(indicators[i], Lower(keyword))

\* C15: when no AI provider yields an intent, determine_intent(k) is Commercial
\* if the lower-cased k contains a commercial indicator, otherwise Navigational
\* if it contains a navigational indicator, otherwise Informational, whatever
\* the state of the random module; 'best running shoes' is Commercial,
\* 'how to tie a knot' Informational, 'app login page' Navigational.
C15_RuleIntentCommercialFirst ==
    (pc = "determine_intent" /\ out.log[1].source = "rule") =>
        /\ ~out.exc
        /\ Indicated(commercial_indicators, main_keyword) =>
              out.val = PyStr("Commercial")
        /\ (~Indicated(commercial_indicators, main_keyword)
               /\ Indicated(navigational_indicators, main_keyword)) =>
              out.val = PyStr("Navigational")
        /\ (~Indicated(commercial_indicators, main_keyword)
               /\ ~Indicated(navigational_indicators, main_keyword)) =>
              out.val = PyStr("Informational")
        /\ main_keyword = "best running shoes" => out.val = PyStr("Commercial")
        /\ main_keyword = "how to tie a knot" => out.val = PyStr("Informational")
        /\ main_keyword = "app login page" => out.val = PyStr("Navigational")

\* a keyword with an indicator of both lists, in upper and lower case, that
\* both AI providers were asked about in vain, classified Commercial
C15_Witness ==
    /\ pc = "determine_intent"
    /\ main_keyword = "Top App"
    /\ Indicated(commercial_indicators, main_keyword)
    /\ Indicated(navigational_indicators, main_keyword)
    /\ Len(out.log[1].tried) = 2
    /\ out.log[1].source = "rule"
    /\ out.val = PyStr("Commercial")

\* the rule engine answered a generate_competitors call
RuleCompetitorsReturned ==
    pc = "generate_competitors" /\ ~out.exc /\ out.log[1].source = "rule"

\* the three records are on pairwise distinct domains of DOMAINS, each url the
\* domain's address, the lower-cased hyphenated keyword and the ending
CompetitorsOnDistinctDomains(competitors, keyword, ending) ==
    /\ Len(competitors) = 3
    /\ \E d \in [1..3 -> DOMAIN DOMAINS] :
          /\ d[1] # d[2] /\ d[1] # d[3] /\ d[2] # d[3]
          /\ \A i \in 1..3 :
                /\ DOMAIN competitors[i] = {"title", "url"}
                /\ competitors[i].url =
                      "https://www." \o DOMAINS[d[i]] \o "/"
                          \o Replace(Lower(keyword), " ", "-") \o ending

\* C16 as stated: the rule-engine path of generate_competitors returns exactly
\* 3 records on pairwise distinct domains of DOMAINS, each url being the
\* lower-cased keyword with spaces replaced by hyphens appended to
\* https://www.<domain>/.
C16_UrlIsSlugAfterDomain ==
    RuleCompetitorsReturned =>
        /\ out.val.t = "list"
        /\ CompetitorsOnDistinctDomains(out.val.v, main_keyword, "")

\* C16 amended: the same, each url being https://www.<domain>/<slug>/ with a
\* closing slash after the slug.
C16_UrlIsSlugBetweenSlashes ==
    RuleCompetitorsReturned =>
        /\ out.val.t = "list"
        /\ CompetitorsOnDistinctDomains(out.val.v, main_keyword, "/")

\* the rule engine's competitors for a keyword with a space and capitals
C16_Witness ==
    /\ RuleCompetitorsReturned
    /\ main_keyword = "Top App"
    /\ Len(out.val.v) = 3
    /\ \E i \in DOMAIN DOMAINS :
          out.val.v[1].url = "https://www." \o DOMAINS[i] \o "/top-app/"

\* the intent generate_related_keywords worked with: its argument, or what
\* its own determine_intent call returned when the argument was omitted
IntentUsed ==
    IF out.intent = "" THEN out.log[1].val.v ELSE out.intent

Elements(seq) == {seq[i] : i \in DOMAIN seq}

\* a multi-token keyword with one of the combination words put before one token
Recombinations(keyword) ==
    LET words == Split(keyword)
    IN  IF Len(words) > 1
        THEN {Join([j \in 1..Len(words) |->
                       IF j = i THEN c \o " " \o words[j] ELSE words[j]], " ") :
                 i \in 1..Len(words), c \in Elements(CombinationWords)}
        ELSE {}

\* what the rule engine may put in a related-keywords list
RuleKeywordForms(keyword, intent) ==
    {m \o " " \o keyword : m \in Elements(Modifiers(intent))}
        \cup Recombinations(keyword)
        \cup {keyword \o " " \o s : s \in Elements(VariationSuffixes)}

\* C17: generate_related_keywords returns, for every keyword, intent and
\* provider outcome, a list of 1 to 10 keywords; on the rule-engine path the
\* list has no duplicates and every element is the keyword prefixed by a
\* modifier of the intent's list, a recombination of a multi-token keyword or
\* one of the five suffix variants.
C17_RelatedKeywordsOneToTen ==
    pc = "generate_related_keywords" =>
        /\ ~out.exc
        /\ out.val.t = "list"
        /\ Len(out.val.v) \in 1..10
        /\ out.log[Len(out.log)].source = "rule" =>
              /\ Cardinality(Elements(out.val.v)) = Len(out.val.v)
              /\ Elements(out.val.v) \subseteq RuleKeywordForms(main_keyword, IntentUsed)

\* a tree with every title blanked
RECURSIVE StripTitles(_)
StripTitles(node) ==
    [node EXCEPT !.title = "",
                 !.children = [i \in DOMAIN node.children |->
                                  StripTitles(node.children[i])]]

\* C18: two builds that differ only in the custom instruction both return or
\* both raise, and the trees they return have the same shape and the same
\* keyword, intent, word_count and competitors at every node: they are equal
\* once the titles are blanked.
C18_CustomPromptChangesOnlyTitles ==
    pc = "pair" =>
        /\ out.exc[1] = out.exc[2]
        /\ ~out.exc[1] => StripTitles(out.val[1]) = StripTitles(out.val[2])

\* two builds whose trees have children and differ, in some title
C18_Witness ==
    /\ pc = "pair"
    /\ ~out.exc[1] /\ ~out.exc[2]
    /\ Len(out.val[1].children) > 0
    /\ out.val[1] # out.val[2]
    /\ out.val[1].title # out.val[2].title

\* C19: a submission with an empty seed keyword shows the validation error,
\* calls no capability and shows no tree; a submission shows a tree only when
\* its seed keyword is not empty.
C19_EmptyKeywordBuildsNoTree ==
    pc \in {"submitted", "rejected"} =>
        IF out.keyword = ""
        THEN /\ pc = "rejected"
             /\ DOMAIN out = {"op", "keyword", "depth", "error"}
             /\ out.error = "Please enter a main keyword to generate the mindmap."
        ELSE /\ pc = "submitted"
             /\ {"val", "log"} \subseteq DOMAIN out
             /\ "error" \notin DOMAIN out

\* the form submitted with an empty keyword, after a key was entered
C19_Witness ==
    /\ pc = "rejected"
    /\ out.keyword = ""
    /\ session_state.openai_api_key # ""

\* the AI providers whose key a build finds in the environment e
KeyedProviders(e) ==
    {p \in {"openai", "gemini"} :
        \A c \in CredentialNames : ProviderOf(c) = p => e[c] # ""}

\* the AI providers a build consults when the form is submitted from the
\* environment e with the radio on option and the keys typed so far
ConsultedAfter(e, option) ==
    KeyedProviders(SubmitEnv(e, [session_state EXCEPT !.api_provider = option]))

\* C20: a Test Connection step, whatever its outcome, leaves unchanged which AI
\* providers a later build consults, whatever provider is selected by then.
C20_TestConnectionIsDiagnosticOnly ==
    [][pc' = "tested" =>
          \A option \in ApiProviders :
              ConsultedAfter(env', option) = ConsultedAfter(env, option)]_vars

\* what a connection test must report, given the key and the package of its
\* provider and how its requests end
TestReports(key, available, b) ==
    IF key = "" \/ ~available THEN ~out.success /\ out.requests = 0
    ELSE IF b \in {"ok", "liberror"} THEN out.success
    ELSE IF b = "quota"
    THEN out.success /\ Contains("quota", out.message)
    ELSE ~out.success

\* C21: a connection test reports success=false and sends no request when its
\* key is missing, success=true when a request succeeds, success=true with a
\* quota message when the failure is a rate-limit or quota failure, and
\* success=false for every other failure.
C21_ConnectionTestReportsFailureKind ==
    /\ pc = "test_openai_connection" =>
          TestReports(env["OPENAI_API_KEY"], OPENAI_AVAILABLE, net["openai"])
    /\ pc = "test_gemini_connection" =>
          TestReports(env["GEMINI_API_KEY"], GEMINI_AVAILABLE, net["gemini"])

\* the nodes of a tree, every parent before its children, children in order
RECURSIVE PreOrder(_)
PreOrder(node) ==
    <<node>> \o Concat([i \in DOMAIN node.children |-> PreOrder(node.children[i])])

\* the number of columns a CSV reader finds in a row: one more than its commas
\* outside quotation marks
RECURSIVE CsvColumnsFrom(_, _)
CsvColumnsFrom(row, quoted) ==
    IF row = "" THEN 1
    ELSE IF Head(row) = "\"" THEN CsvColumnsFrom(Tail(row), ~quoted)
    ELSE IF Head(row) = "," /\ ~quoted THEN 1 + CsvColumnsFrom(Tail(row), quoted)
    ELSE CsvColumnsFrom(Tail(row), quoted)

CsvColumns(row) == CsvColumnsFrom(row, FALSE)

\* C22: the CSV export is the header row Keyword,Intent,Word Count,Title and
\* one row of exactly four columns per tree node, in depth-first pre-order;
\* the plain keyword list has one line per node in the same order.
C22_CsvHasOneFourColumnRowPerNode ==
    pc = "extract_keywords" =>
        LET rows == SplitOn(out.csv_text, "\n")
            lines == SplitOn(out.keywords_text, "\n")
            order == PreOrder(out.val)
        IN  /\ rows[1] = "Keyword,Intent,Word Count,Title"
            /\ Len(rows) = 1 + Len(order)
            /\ \A i \in 1..Len(order) :
                  /\ CsvColumns(rows[i + 1]) = 4
                  /\ StartsWith(rows[i + 1], order[i].keyword \o ",")
            /\ lines = [i \in 1..Len(order) |-> order[i].keyword]

\* a JSON parser on the tokens of a text: a string token is read up to its
\* closing quotation mark with its escapes undone, a number token digit by
\* digit, an array as a sequence and an object as a record
RECURSIVE JsonUnescape(_)
JsonUnescape(s) ==
    IF s = "" \/ Head(s) = "\"" THEN ""
    ELSE IF Head(s) = "\\" /\ Len(s) >= 2
    THEN (IF CharAt(s, 2) = "n" THEN "\n" ELSE CharAt(s, 2))
             \o JsonUnescape(SubSeq(s, 3, Len(s)))
    ELSE Head(s) \o JsonUnescape(Tail(s))

RECURSIVE JsonNumber(_, _)
JsonNumber(s, n) ==
    IF s = "" THEN n
    ELSE JsonNumber(Tail(s),
                    10 * n + (CHOOSE d \in 0..9 : CharAt("0123456789", d + 1) = Head(s)))

Parsed(value, next) == [value |-> value, next |-> next]

RECURSIVE JsonValue(_, _)
RECURSIVE JsonElements(_, _, _)
RECURSIVE JsonMembers(_, _, _)
\* the elements of an array from token i on, after the elements read so far
JsonElements(tokens, i, read) ==
    IF tokens[i] = "]" THEN Parsed(read, i + 1)
    ELSE IF tokens[i] = "," THEN JsonElements(tokens, i + 1, read)
    ELSE LET e == JsonValue(tokens, i)
         IN  JsonElements(tokens, e.next, Append(read, e.value))

\* the members of an object from token i on, after the members read so far
JsonMembers(tokens, i, read) ==
    IF tokens[i] = "}" THEN Parsed(read, i + 1)
    ELSE IF tokens[i] = "," THEN JsonMembers(tokens, i + 1, read)
    ELSE LET key == JsonUnescape(Tail(tokens[i]))
             m == JsonValue(tokens, i + 2)
         IN  JsonMembers(tokens, m.next, [k \in DOMAIN read \cup {key} |->
                                             IF k = key THEN m.value ELSE read[k]])

JsonValue(tokens, i) ==
    IF tokens[i] = "[" THEN JsonElements(tokens, i + 1, <<>>)
    ELSE IF tokens[i] = "{" THEN JsonMembers(tokens, i + 1, [k \in {} |-> ""])
    ELSE IF Head(tokens[i]) = "\"" THEN Parsed(JsonUnescape(Tail(tokens[i])), i + 1)
    ELSE Parsed(JsonNumber(tokens[i], 0), i + 1)

JsonLoadsText(tokens) == JsonValue(tokens, 1).value

RootIntentAt(s, keyword) ==
    generate_keyword_node([World EXCEPT !.seed = s], keyword, TRUE, custom_prompt).val.intent

\* C24: the root's intent is one of Commercial, Informational, Navigational,
\* each of the three being drawn for the seed keyword in some state of the
\* random module, and the intent of every other node is what determine_intent
\* returns for the node's own keyword.
C24_RootIntentDrawnOthersClassified ==
    TreeReturned =>
        /\ out.val.intent \in IntentArguments
        /\ \A intent \in IntentArguments :
              \E s \in 0..2 : RootIntentAt(s, main_keyword) = intent
        /\ LET order == PreOrder(out.val)
           IN  \A i \in 2..Len(order) :
                  order[i].intent = determine_intent(World, order[i].keyword).val.v

\* a tree of three levels whose root intent is not the classification of the
\* seed keyword
C24_Witness ==
    /\ TreeReturned
    /\ Height(out.val) = 3
    /\ out.val.intent # determine_intent(World, main_keyword).val.v

\* the node of a tree at a path of child indexes
RECURSIVE NodeAtPath(_, _)
NodeAtPath(node, path) ==
    IF Len(path) = 0 THEN node
    ELSE NodeAtPath(node.children[Head(path)], Tail(path))

\* what generate_related_keywords returns for a keyword when it is given the
\* intent determine_intent finds for that keyword
RelatedForClassified(keyword) ==
    generate_related_keywords(World, keyword,
                              determine_intent(World, keyword).val.v).val

\* C25: at every level the related keywords of a node are those
\* generate_related_keywords yields for the intent determine_intent finds for
\* the node's keyword; for the root this is the classified intent of the seed,
\* not the intent stored in the root node.
C25_RelatedKeywordsUseClassifiedIntent ==
    TreeReturned =>
        \A i \in 1..Len(out.expanded) :
            out.expanded[i].returned =
                RelatedForClassified(NodeAtPath(out.val, out.expanded[i].path).keyword)

\* a tree of two levels whose root stores another intent than the seed's
\* classification, and whose children are not the related keywords of the
\* stored intent
C25_Witness ==
    /\ TreeReturned
    /\ Height(out.val) >= 2
    /\ out.val.intent # determine_intent(World, main_keyword).val.v
    /\ out.expanded[1].path = <<>>
    /\ out.expanded[1].returned #
           generate_related_keywords(World, main_keyword, out.val.intent).val

\* the titles a template family yields for a keyword
TitlesOf(templates, keyword) ==
    {templates[i][1] \o Title(keyword) \o templates[i][2] : i \in DOMAIN templates}

\* the family the intent and the custom instruction select: numbered when the
\* instruction holds a number term, else formal when it holds a formal term,
\* else the generic custom family; the standard family without an instruction
FamilyTitles(intent, instruction, keyword) ==
    LET lowered == Lower(instruction)
        formal == Contains("formal", lowered) \/ Contains("professional", lowered)
    IN  IF instruction = ""
        THEN TitlesOf(StandardTemplates(intent, "2023"), keyword)
                 \cup TitlesOf(StandardTemplates(intent, "2024"), keyword)
        ELSE IF Contains("number", lowered)
        THEN TitlesOf(CustomTemplates(intent, TRUE, formal), keyword)
        ELSE IF formal THEN TitlesOf(CustomTemplates(intent, FALSE, TRUE), keyword)
        ELSE TitlesOf(CustomTemplates(intent, FALSE, FALSE), keyword)

\* C26: when no AI provider yields a title, generate_title returns a template
\* of the family the intent and the custom instruction select, every family
\* has 4 to 6 templates, and the title contains the title-cased keyword.
C26_RuleTitleFromSelectedFamily ==
    /\ \A intent \in IntentArguments, n \in BOOLEAN, f \in BOOLEAN :
          /\ Len(CustomTemplates(intent, n, f)) \in 4..6
          /\ Len(StandardTemplates(intent, "2023")) \in 4..6
    /\ (pc = "generate_title" /\ out.log[1].source = "rule") =>
          /\ ~out.exc
          /\ out.val.v \in FamilyTitles(out.intent, custom_prompt, main_keyword)
          /\ Contains(Title(main_keyword), out.val.v)

\* a template title for an instruction with a number term and a formal term
C26_Witness ==
    /\ pc = "generate_title"
    /\ out.log[1].source = "rule"
    /\ custom_prompt = "Add Numbers, be professional"
    /\ main_keyword = "how to tie a knot"
    /\ out.intent = "Commercial"

ViewOps ==
    {"process_data_for_visualization", "extract_keywords", "export_json",
     "display_keyword_data"}

\* C27: the visualisation, the keyword and CSV extraction, the JSON export and
\* the structured display leave the tree as generate_keyword_structure
\* returned it: every field of every node is unchanged.
C27_TreeUnchangedByViews ==
    pc \in ViewOps => out.after = out.val

\* a tree of three levels went through the visualisation
C27_Witness ==
    /\ pc = "process_data_for_visualization"
    /\ Height(out.val) = 2
    /\ Len(out.nodes) = Len(PreOrder(out.val))
    /\ Len(out.val.competitors) > 0

\* C28: for every tree, also one in which a keyword or a cleaned id occurs in
\* several places, process_data_for_visualization emits one graph node per
\* tree node, in pre-order, and the ids of the graph nodes are pairwise distinct.
C28_OneGraphNodePerTreeNodeDistinctIds ==
    pc = "process_data_for_visualization" =>
        LET order == PreOrder(out.val)
        IN  /\ Len(out.nodes) = Len(order)
            /\ \A i \in 1..Len(order) : out.nodes[i].label = order[i].keyword
            /\ \A i, j \in 1..Len(out.nodes) :
                  i # j => out.nodes[i].id # out.nodes[j].id

\* a tree in which "seo" occurs three times and "seo 1" once, whose cleaned id
\* seo_1 is the first suffixed id of "seo"
C28_Witness ==
    /\ pc = "process_data_for_visualization"
    /\ LET order == PreOrder(out.val)
       IN  /\ Cardinality({i \in 1..Len(order) : order[i].keyword = "seo"}) = 3
           /\ \E i \in 1..Len(order) : order[i].keyword = "seo 1"
    /\ \E i \in 1..Len(out.nodes) : out.nodes[i].id = "seo_1_1"

\* the pre-order position of the k-th child of the node at position p
RECURSIVE ChildPosition(_, _, _)
ChildPosition(node, p, k) ==
    IF k = 1 THEN p + 1
    ELSE ChildPosition(node, p, k - 1) + Len(PreOrder(node.children[k - 1]))

\* the edges of the tree below the node at pre-order position p, parents
\* before children, between the ids given by pre-order position
RECURSIVE TreeEdges(_, _, _)
TreeEdges(node, p, ids) ==
    Concat([k \in DOMAIN node.children |->
               <<[source |-> ids[p], target |-> ids[ChildPosition(node, p, k)]]>>
                   \o TreeEdges(node.children[k], ChildPosition(node, p, k), ids)])

\* C29: for a tree whose keywords are all non-empty,
\* process_data_for_visualization emits one edge per non-root node, from the
\* id of its parent to its own id, and no other edge: one edge less than
\* nodes, forming the tree of the input.
C29_EdgesFormTheTree ==
    (/\ pc = "process_data_for_visualization"
     /\ \A i \in 1..Len(PreOrder(out.val)) : PreOrder(out.val)[i].keyword # "") =>
        /\ Len(out.edges) = Len(out.nodes) - 1
        /\ out.edges = TreeEdges(out.val, 1, [i \in 1..Len(out.nodes) |-> out.nodes[i].id])

\* a tree of three levels and five nodes, no keyword empty, a keyword repeated
C29_Witness ==
    /\ pc = "process_data_for_visualization"
    /\ \A i \in 1..Len(PreOrder(out.val)) : PreOrder(out.val)[i].keyword # ""
    /\ Len(out.val.children) = 2
    /\ \A i \in 1..2 : Len(out.val.children[i].children) = 1
    /\ Len(out.edges) = 4
    /\ out.val.children[1].keyword = out.val.keyword

\* the commercial indicators a keyword contains
CommercialIn(keyword) ==
    {i \in DOMAIN commercial_indicators :
        Contains(commercial_indicators[i], Lower(keyword))}

\* every node below node has the indicators in its keyword and is Commercial
RECURSIVE InheritedBelow(_, _)
InheritedBelow(node, indicators) ==
    \A k \in DOMAIN node.children :
        /\ indicators \subseteq CommercialIn(node.children[k].keyword)
        /\ node.children[k].intent = "Commercial"
        /\ InheritedBelow(node.children[k], indicators)

\* the property below node for the indicators of its keyword, and for every
\* node under it
RECURSIVE CommercialInherited(_)
CommercialInherited(node) ==
    /\ CommercialIn(node.keyword) # {} => InheritedBelow(node, CommercialIn(node.keyword))
    /\ \A k \in DOMAIN node.children : CommercialInherited(node.children[k])

\* C30: with no AI provider configured, when the keyword of a node (or the
\* seed) contains a commercial indicator, every keyword derived from it
\* contains that indicator and every node below it has intent Commercial.
C30_CommercialIntentInherited ==
    (TreeReturned /\ ~Enabled("openai") /\ ~Enabled("gemini")) =>
        CommercialInherited(out.val)

\* a tree of three levels built by the rule engine for a seed with a
\* commercial indicator, one of its children a recombination of the seed
C30_Witness ==
    /\ TreeReturned
    /\ ~Enabled("openai") /\ ~Enabled("gemini")
    /\ main_keyword = "Top App"
    /\ Height(out.val) = 3
    /\ \E k \in DOMAIN out.val.children :
          out.val.children[k].keyword \in Recombinations(main_keyword)
=============================================================================
